---------------------------- MODULE Spec2Model ----------------------------
(***************************************************************************)
(* A model of the kaniko build engine: the layered map (pkg/snapshot),     *)
(* the snapshotter, the layer cache client and the stage builder           *)
(* (pkg/executor/build.go).                                                 *)
(*                                                                         *)
(* Three state machines share the module:                                  *)
(*   SpecLM    the LayeredMap with layers, modifiedFiles and whiteouts     *)
(*   SpecSnap  the Snapshotter over a root filesystem                      *)
(*   SpecCache PushLayerToCache / CheckCacheForLayer over a registry       *)
(*   Spec      stageBuilder.buildStage, one loop iteration per step        *)
(* A Go map is a function whose DOMAIN is its key set.                      *)
(***************************************************************************)
EXTENDS Integers, Sequences, FiniteSets, TLC

VARIABLES
    \* LayeredMap (src/unnamed/part_001)
    layers, modifiedFiles, whiteouts, lmRet, keyTest,
    \* Snapshotter and its LayeredMap (src/unnamed/part_002)
    disk,           \* the root filesystem: path -> fingerprint, or NoFile
    prevDisk,       \* the filesystem as the previous snapshot pass saw it
    whitelist,      \* the process-wide whitelist (path prefixes)
    Layers,         \* LayeredMap.Layers
    WhiteoutFiles,  \* LayeredMap.WhiteoutFiles
    tar,            \* the entries the last pass wrote to its tar writer
    snapRet,        \* what the last pass returned
    \* The layer cache (src/unnamed/part_003, src/pkg/cache/cache.go)
    registry,       \* the remote registry: reference -> image, as far as known
    lastPush,       \* the last PushLayerToCache that succeeded
    cacheRet,       \* what the last cache operation returned
    pushCall,       \* a DoPush call: its options, what it attempted and returned
    \* stageBuilder.buildStage (src/pkg/executor/build.go)
    stage,          \* s.Stage: Commands and FinalStage
    options,        \* opts, the KanikoOptions of the build
    status,         \* "new", "loop" (in the for loop), "done" (nil), "failed"
    index,          \* the loop index of the next command, from 1
    image,          \* the layers appended to s.Image, with their history
    config,         \* s.ConfigFile.Config as the commands left it
    passes,         \* the LayeredMap.Snapshot() calls of the stage so far
    log,            \* what each loop iteration did
    \* DoBuild (src/pkg/executor/build.go)
    doBuild         \* the stages, the loop position, what was built and returned

lmVars == <<layers, modifiedFiles, whiteouts, lmRet, keyTest>>

snapVars == <<disk, prevDisk, whitelist, Layers, WhiteoutFiles, tar, snapRet>>

cacheVars == <<registry, lastPush, cacheRet, pushCall>>

buildVars == <<stage, options, status, index, image, config, passes, log, doBuild>>

vars == <<lmVars, snapVars, cacheVars, buildVars>>

---------------------------------------------------------------------------
(* Generic helpers for Go maps                                             *)

EmptyMap == [x \in {} |-> ""]

Put(m, k, v) == [x \in (DOMAIN m) \cup {k} |-> IF x = k THEN v ELSE m[x]]

SetMax(S) == CHOOSE x \in S : \A y \in S : y <= x

\* s with its first element replaced by e.
SetBottom(s, e) == [s EXCEPT ![1] = e]

\* s with its last element replaced by e (a write to the top layer).
SetTop(s, e) == [s EXCEPT ![Len(s)] = e]

---------------------------------------------------------------------------
(* LayeredMap, src/unnamed/part_001                                        *)

\* The number of Snapshot() calls explored.
MaxLayers == 2

\* Paths are sequences of components; the last one is filepath.Base.
LMPaths == { <<"a">>, <<"a", ".wh.b">> }

\* The paths MaybeAddWhiteout is called with (paths of real files).
WhiteoutPaths == { <<"a">> }

\* What the fs hasher and util.IgnoreMtimeHasher can return for a file.
Hashes == {"h1", "h2"}
TarHashes == {"t1"}

Absent == [v |-> "", ok |-> FALSE]

\* The loop of Get/GetWhiteout: for i := len-1; i >= 0; i--.
RECURSIVE LookupBelow(_, _, _)
LookupBelow(ls, s, i) ==
    IF i = 0 THEN Absent
    ELSE IF s \in DOMAIN ls[i] THEN [v |-> ls[i][s], ok |-> TRUE]
    ELSE LookupBelow(ls, s, i - 1)

\* The same loop run in the other direction (a plausible slip).
RECURSIVE LookupAbove(_, _, _)
LookupAbove(ls, s, i) ==
    IF i > Len(ls) THEN Absent
    ELSE IF s \in DOMAIN ls[i] THEN [v |-> ls[i][s], ok |-> TRUE]
    ELSE LookupAbove(ls, s, i + 1)

LookupLowest(ls, s) == LookupAbove(ls, s, 1)

Lookup(ls, s) == LookupBelow(ls, s, Len(ls))

Get(s) == Lookup(layers, s)

GetWhiteout(s) == Lookup(whiteouts, s)

\* A comparison that takes every file for changed.
ChangedAlways(old, newV) == TRUE

\* MaybeAdd, line 127: the file is unchanged when Get found it with the
\* fingerprint the hasher returns now.
Changed(old, newV) == ~(old.ok /\ newV = old.v)

\* strings.HasPrefix(filepath.Base(p), ".wh.") over the names of the model.
WhiteoutNames == { ".wh.b" }
IsWhiteoutName(p) == p[Len(p)] \in WhiteoutNames

\* The body of the inner loop of GetFlattenedPathsForWhiteOut, lines 63-68:
\* the delete or the insert, then the unconditional insert of line 68.
VisitPath(paths, p) ==
    LET q == IF IsWhiteoutName(p) THEN paths \ {p} ELSE paths \cup {p}
    IN  q \cup {p}

RECURSIVE VisitPaths(_, _)
VisitPaths(paths, ps) ==
    IF ps = {} THEN paths
    ELSE LET p == CHOOSE x \in ps : TRUE IN VisitPaths(VisitPath(paths, p), ps \ {p})

RECURSIVE VisitLayers(_, _, _)
VisitLayers(paths, ls, i) ==
    IF i > Len(ls) THEN paths
    ELSE VisitLayers(VisitPaths(paths, DOMAIN ls[i]), ls, i + 1)

\* GetFlattenedPathsForWhiteOut(), lines 59-72.
GetFlattenedPathsForWhiteOut(ls) == VisitLayers({}, ls, 1)

\* The keys json.Marshal writes a map[string]string with: sorted, so "a"
\* before "a/.wh.b" before "hey" before "hi".
SortedKeys == << <<"a">>, <<"a", ".wh.b">>, <<"hey">>, <<"hi">> >>

InMap(m) == [i \in 1..Len(SortedKeys) |-> SortedKeys[i] \in DOMAIN m]

\* encoding/json of one map: the key-value pairs in sorted key order.
RECURSIVE EncodeFrom(_, _)
EncodeFrom(m, i) ==
    IF i > Len(SortedKeys) THEN <<>>
    ELSE IF InMap(m)[i] THEN <<<<SortedKeys[i], m[SortedKeys[i]]>>>> \o EncodeFrom(m, i + 1)
    ELSE EncodeFrom(m, i + 1)

\* enc.Encode of a []map[string]string: null for the nil slice, else the
\* list of the encoded maps.
Encode(ms) ==
    IF ms = <<>> THEN <<"null">>
    ELSE <<"list", [i \in DOMAIN ms |-> EncodeFrom(ms[i], 1)]>>

\* util.SHA256, taken for collision free.
SHA256(c) == <<"sha256", c>>

\* The LayeredMap as a struct value.
LayeredMap(ls, mf, ws) == [layers |-> ls, modifiedFiles |-> mf, whiteouts |-> ws]

\* A key over the fs-hash layers.
KeyOverLayers(l) == SHA256(Encode(l.layers))

\* Key(), lines 46-51: SHA256 of the JSON of l.modifiedFiles.
Key(l) == SHA256(Encode(l.modifiedFiles))

\* Test_Key not running.
KeyTestIdle ==
    keyTest = [lm1 |-> LayeredMap(<<>>, <<>>, <<>>), lm2 |-> LayeredMap(<<>>, <<>>, <<>>),
               key1 |-> <<>>, key2 |-> <<>>, at |-> "idle"]

\* NewLayeredMap
LMFresh ==
    /\ layers = <<>>
    /\ modifiedFiles = <<>>
    /\ whiteouts = <<>>
    /\ lmRet = [op |-> "new", s |-> <<>>, v |-> "", added |-> FALSE, err |-> FALSE]

LMInit == LMFresh /\ KeyTestIdle

LMSnapshot ==
    /\ UNCHANGED <<keyTest, snapVars, cacheVars, buildVars>>
    /\ Len(layers) < MaxLayers
    /\ whiteouts' = Append(whiteouts, EmptyMap)
    /\ layers' = Append(layers, EmptyMap)
    /\ modifiedFiles' = Append(modifiedFiles, EmptyMap)
    /\ lmRet' = [op |-> "Snapshot", s |-> <<>>, v |-> "", added |-> FALSE, err |-> FALSE]

\* MaybeAddWhiteout(s): returns false when GetWhiteout finds s marked.
LMMaybeAddWhiteout(s) ==
    /\ UNCHANGED <<keyTest, snapVars, cacheVars, buildVars>>
    /\ Len(whiteouts) > 0
    /\ LET w == GetWhiteout(s) IN
       IF w.ok /\ w.v = s
       THEN /\ lmRet' = [op |-> "MaybeAddWhiteout", s |-> s, v |-> "", added |-> FALSE, err |-> FALSE]
            /\ UNCHANGED <<layers, modifiedFiles, whiteouts>>
       ELSE /\ whiteouts' = SetTop(whiteouts, Put(whiteouts[Len(whiteouts)], s, s))
            /\ lmRet' = [op |-> "MaybeAddWhiteout", s |-> s, v |-> "", added |-> TRUE, err |-> FALSE]
            /\ UNCHANGED <<layers, modifiedFiles>>

\* Add(s): hashErr and mtimeErr are the two hashers' failures.
LMAdd(s, newV, hashErr, m, mtimeErr) ==
    /\ UNCHANGED <<keyTest, snapVars, cacheVars, buildVars>>
    /\ Len(layers) > 0
    /\ IF hashErr
       THEN /\ lmRet' = [op |-> "Add", s |-> s, v |-> "", added |-> FALSE, err |-> TRUE]
            /\ UNCHANGED <<layers, modifiedFiles, whiteouts>>
       ELSE /\ layers' = SetTop(layers, Put(layers[Len(layers)], s, newV))
            /\ IF mtimeErr
               THEN /\ lmRet' = [op |-> "Add", s |-> s, v |-> "", added |-> FALSE, err |-> TRUE]
                    /\ UNCHANGED modifiedFiles
               ELSE /\ modifiedFiles' =
                          SetTop(modifiedFiles, Put(modifiedFiles[Len(modifiedFiles)], s, m))
                    /\ lmRet' = [op |-> "Add", s |-> s, v |-> "", added |-> TRUE, err |-> FALSE]
            /\ UNCHANGED whiteouts

\* MaybeAdd(s): newV is what the hasher returns for s now.
LMMaybeAdd(s, newV, hashErr) ==
    /\ UNCHANGED <<keyTest, snapVars, cacheVars, buildVars>>
    /\ Len(layers) > 0
    /\ LET old == Get(s) IN
       IF hashErr
       THEN /\ lmRet' = [op |-> "MaybeAdd", s |-> s, v |-> "", added |-> FALSE, err |-> TRUE]
            /\ UNCHANGED <<layers, modifiedFiles, whiteouts>>
       ELSE IF ~Changed(old, newV)
       THEN /\ lmRet' = [op |-> "MaybeAdd", s |-> s, v |-> newV, added |-> FALSE, err |-> FALSE]
            /\ UNCHANGED <<layers, modifiedFiles, whiteouts>>
       ELSE /\ layers' = SetTop(layers, Put(layers[Len(layers)], s, newV))
            /\ lmRet' = [op |-> "MaybeAdd", s |-> s, v |-> newV, added |-> TRUE, err |-> FALSE]
            /\ UNCHANGED <<modifiedFiles, whiteouts>>

LMNext ==
    \/ LMSnapshot
    \/ \E s \in WhiteoutPaths : LMMaybeAddWhiteout(s)
    \/ \E s \in LMPaths, newV \in Hashes, m \in TarHashes :
          \/ LMAdd(s, newV, FALSE, m, FALSE)
          \/ LMAdd(s, newV, FALSE, m, TRUE)
    \/ \E s \in LMPaths, m \in TarHashes : LMAdd(s, "h1", TRUE, m, FALSE)
    \/ \E s \in LMPaths, newV \in Hashes : LMMaybeAdd(s, newV, FALSE)
    \/ \E s \in LMPaths : LMMaybeAdd(s, "h1", TRUE)


---------------------------------------------------------------------------
(* Test_Key, src/pkg/snapshot/layered_map_test.go lines 23-52, over any     *)
(* two one-layer maps with keys and values among "hey" and "hi"             *)

TestKeys == { <<"hey">>, <<"hi">> }
TestValues == { "hi", "hey" }

\* The map literals a layer can be.
TestMaps == UNION { [d -> TestValues] : d \in SUBSET TestKeys }

\* LayeredMap{layers: []map[string]string{m}}: the other fields are nil.
TestLayeredMap(m) == LayeredMap(<<m>>, <<>>, <<>>)

KeyTestInit ==
    /\ keyTest \in [lm1 : { TestLayeredMap(m) : m \in TestMaps },
                    lm2 : { TestLayeredMap(m) : m \in TestMaps },
                    key1 : { <<>> }, key2 : { <<>> }, at : { "start" }]

\* key1, err := lm1.Key() (lines 41-44; util.SHA256 of a buffer does not fail)
TestKey1 ==
    /\ UNCHANGED <<layers, modifiedFiles, whiteouts, lmRet, snapVars, cacheVars, buildVars>>
    /\ keyTest.at = "start"
    /\ keyTest' = [keyTest EXCEPT !.key1 = Key(keyTest.lm1), !.at = "key1"]

\* key2, err := lm2.Key() (lines 45-48)
TestKey2 ==
    /\ UNCHANGED <<layers, modifiedFiles, whiteouts, lmRet, snapVars, cacheVars, buildVars>>
    /\ keyTest.at = "key1"
    /\ keyTest' = [keyTest EXCEPT !.key2 = Key(keyTest.lm2), !.at = "key2"]

\* if key1 == key2 { t.Fatalf(...) } (lines 49-51)
TestCompare ==
    /\ UNCHANGED <<layers, modifiedFiles, whiteouts, lmRet, snapVars, cacheVars, buildVars>>
    /\ keyTest.at = "key2"
    /\ keyTest' = [keyTest EXCEPT !.at = IF keyTest.key1 = keyTest.key2 THEN "fatal"
                                         ELSE "pass"]

KeyTestNext == TestKey1 \/ TestKey2 \/ TestCompare

---------------------------------------------------------------------------
(* Snapshotter, src/unnamed/part_002 lines 308-468, over the LayeredMap    *)
(* with Layers and WhiteoutFiles of lines 19-58                            *)

\* The number of snapshot passes of one stage explored, Init included.
MaxPasses == 3

PA == <<"a">>
PB == <<"a", "b">>
PC == <<"a", "b", "c">>

\* The paths below the root directory, in the lexical order of filepath.Walk
\* (the root directory itself exists throughout with one fingerprint).
SnapPathSeq == <<PA, PB, PC>>
SnapPaths == { SnapPathSeq[i] : i \in 1..Len(SnapPathSeq) }

NoFile == "none"

\* The directories a VOLUME instruction can add to the whitelist.
VolumePaths == { PB }

\* The arguments TakeSnapshot is called with besides nil.
FileLists == { <<>>, <<PA>>, <<PC>>, <<PB, PC>> }

IsPrefix(q, p) == Len(q) <= Len(p) /\ SubSeq(p, 1, Len(q)) = q

Parent(p) == SubSeq(p, 1, Len(p) - 1)

\* A filesystem: a path exists only below an existing directory.
ValidDisk(d) ==
    \A p \in SnapPaths : (d[p] # NoFile /\ Len(p) > 1) => d[Parent(p)] # NoFile

\* The filesystems a base image unpacks to.
BaseDisks ==
    { [p \in SnapPaths |-> NoFile], [p \in SnapPaths |-> "h1"] }

\* util.PathInWhitelist: the path has a whitelisted prefix.
PathInWhitelist(path, wl) == \E w \in wl : IsPrefix(w, path)

\* util.FilepathExists
FilepathExists(d, file) == d[file] # NoFile

\* LayeredMap.Get of part_002 (lines 38-45), the loop of Lookup.
SGet(ls, s) == Lookup(ls, s)

\* LayeredMap.MaybeAdd of part_002 (lines 47-58); newV is hasher(s).
SMaybeAdd(ls, s, newV) ==
    LET old == SGet(ls, s) IN
    IF old.ok /\ newV = old.v
    THEN [added |-> FALSE, Layers |-> ls]
    ELSE [added |-> TRUE, Layers |-> SetTop(ls, Put(ls[Len(ls)], s, newV))]

FileEntry(p) == [kind |-> "file", path |-> p]
WhiteoutEntry(p) == [kind |-> "whiteout", path |-> p]

\* What a write that failed left in the tar for p.
PartialEntry(p) == [kind |-> "partial", path |-> p]

\* No path: the pass meets no write failure.
NoPath == <<>>

\* The paths at which a write to the tar is made to fail.
TarFailures == {NoPath} \cup SnapPaths

\* util.AddToTar(p, info, w), the write failing when p is bad.
AddToTar(tarSeq, p, bad) ==
    IF p = bad THEN [tar |-> Append(tarSeq, PartialEntry(p)), err |-> TRUE]
    ELSE [tar |-> Append(tarSeq, FileEntry(p)), err |-> FALSE]

\* The body of the two loops (lines 383-396 and 411-428): skip a whitelisted
\* path, else MaybeAdd and, when added, write the file to the tar. tarErr
\* is whether a call of util.AddToTar returned an error.
AddIfChanged(st, d, wl, p) ==
    IF PathInWhitelist(p, wl) THEN st
    ELSE LET r == SMaybeAdd(st.Layers, p, d[p])
             w == AddToTar(st.tar, p, st.bad)
         IN
         IF r.added
         THEN [st EXCEPT !.Layers = r.Layers,
                         !.WhiteoutFiles = Put(@, p, FALSE),
                         !.tar = w.tar,
                         !.filesAdded = TRUE,
                         !.tarErr = @ \/ w.err]
         ELSE st

\* filepath.Walk(s.directory, ...) over the paths that exist, from the i-th;
\* the walk stops when the function returns the error of util.AddToTar
\* (line 426).
RECURSIVE WalkFrom(_, _, _, _)
WalkFrom(st, d, wl, i) ==
    IF i > Len(SnapPathSeq) \/ st.tarErr THEN st
    ELSE IF ~FilepathExists(d, SnapPathSeq[i]) THEN WalkFrom(st, d, wl, i + 1)
    ELSE WalkFrom(AddIfChanged(st, d, wl, SnapPathSeq[i]), d, wl, i + 1)

\* checkForRemovedFiles, lines 447-457: dirPath runs over the prefixes of
\* file; this is whether the loop meets one that WhiteoutFiles marks true.
PrefixWhitedOut(wf, file) ==
    \E k \in 0..Len(file) :
        LET dirPath == SubSeq(file, 1, k) IN dirPath \in DOMAIN wf /\ wf[dirPath]

\* Whether checkForRemovedFiles leaves file out: the `continue` of line 454
\* continues the loop over the prefixes, not the loop over the files, so
\* the whiteout of line 460 is written whatever the prefixes are.
SkipsWhiteout(wf, file) == PrefixWhitedOut(wf, file) /\ FALSE

\* The files of one layer that checkForRemovedFiles writes a whiteout for.
Removed(layer, d, wf) ==
    { f \in DOMAIN layer : ~FilepathExists(d, f) /\ ~SkipsWhiteout(wf, f) }

\* The orders a Go map iteration can visit the set S in.
Perms(S) ==
    { s \in [1..Cardinality(S) -> S] : \A x \in S : \E i \in DOMAIN s : s[i] = x }

\* The sequences of whiteouts checkForRemovedFiles can write: the layers in
\* order, the files of a layer in map order.
RECURSIVE RemovedSeqs(_, _, _, _)
RemovedSeqs(ls, d, wf, i) ==
    IF i > Len(ls) THEN { <<>> }
    ELSE { a \o b : a \in Perms(Removed(ls[i], d, wf)),
                    b \in RemovedSeqs(ls, d, wf, i + 1) }

\* WhiteoutFiles after checkForRemovedFiles wrote the whiteouts ws.
MarkWhiteouts(wf, ws) ==
    [x \in (DOMAIN wf) \cup { ws[i] : i \in DOMAIN ws } |->
        IF \E i \in DOMAIN ws : ws[i] = x THEN TRUE ELSE wf[x]]

\* snapShotFS up to the walk: l.Snapshot() and filepath.Walk, the write of
\* bad failing.
AfterWalkOf(bad) ==
    WalkFrom([Layers |-> Append(Layers, EmptyMap), WhiteoutFiles |-> WhiteoutFiles,
              tar |-> <<>>, filesAdded |-> FALSE, bad |-> bad, tarErr |-> FALSE],
             disk, whitelist, 1)

\* The walk when no write fails.
AfterWalk == AfterWalkOf(NoPath)

\* The whiteout sequences checkForRemovedFiles can write in this pass.
RemovedNow == RemovedSeqs(AfterWalk.Layers, disk, AfterWalk.WhiteoutFiles, 1)

\* snapShotFS: the walk, then checkForRemovedFiles writing the whiteouts ws;
\* it returns AfterWalk.filesAdded.
SnapShotFS(ws) ==
    /\ Layers' = AfterWalk.Layers
    /\ WhiteoutFiles' = MarkWhiteouts(AfterWalk.WhiteoutFiles, ws)
    /\ tar' = AfterWalk.tar \o [i \in DOMAIN ws |-> WhiteoutEntry(ws[i])]
    /\ prevDisk' = disk
    /\ UNCHANGED <<disk, whitelist>>

\* What tar.Writer.Close() adds to the buffer: the padding and the end of
\* the archive.
EndOfArchive == [kind |-> "end", path |-> NoPath]

\* Whether the deferred w.Close() has run when the buffer is read. That of
\* snapShotFS (line 408) runs when snapShotFS returns, before TakeSnapshot
\* reads the buffer (line 354); that of TakeSnapshotOfFiles (line 376) runs
\* after the operand of its return, ioutil.ReadAll(buf) (line 401).
ClosedBeforeRead(op) == op = "full"

\* ioutil.ReadAll(buf): what the writer put in the buffer so far.
ReadAll(tarSeq, closed) == IF closed THEN Append(tarSeq, EndOfArchive) ELSE tarSeq

\* The snapshotter left out: the state of a program that builds none.
SnapIdle ==
    /\ disk = [p \in SnapPaths |-> NoFile]
    /\ prevDisk = disk
    /\ whitelist = {}
    /\ Layers = <<>>
    /\ WhiteoutFiles = [x \in {} |-> FALSE]
    /\ tar = <<>>
    /\ snapRet = [op |-> "new", filesAdded |-> FALSE, nil |-> TRUE, err |-> FALSE,
                  contents |-> <<>>]

SnapInitState ==
    /\ disk \in BaseDisks
    /\ prevDisk = disk
    /\ whitelist = {}
    /\ Layers = <<>>
    /\ WhiteoutFiles = [x \in {} |-> FALSE]
    /\ tar = <<>>
    /\ snapRet = [op |-> "new", filesAdded |-> FALSE, nil |-> TRUE, err |-> FALSE,
                  contents |-> <<>>]

\* Snapshotter.Init: snapShotFS into ioutil.Discard, once, first.
SnapshotterInit ==
    /\ UNCHANGED <<lmVars, cacheVars, buildVars>>
    /\ Layers = <<>>
    /\ \E ws \in RemovedNow : SnapShotFS(ws)
    /\ snapRet' = [op |-> "init", filesAdded |-> AfterWalk.filesAdded, nil |-> TRUE ,
                   err |-> FALSE, contents |-> <<>>]

\* TakeSnapshot(nil): the full-filesystem pass; nil unless filesAdded. When
\* the walk returns an error snapShotFS returns it (lines 430-432) and
\* TakeSnapshot returns nil and the error (lines 351-353).
TakeSnapshotFull(bad) ==
    /\ UNCHANGED <<lmVars, cacheVars, buildVars>>
    /\ Layers # <<>>
    /\ Len(Layers) < MaxPasses
    /\ LET w == AfterWalkOf(bad) IN
       IF w.tarErr
       THEN /\ Layers' = w.Layers
            /\ WhiteoutFiles' = w.WhiteoutFiles
            /\ tar' = w.tar
            /\ prevDisk' = disk
            /\ UNCHANGED <<disk, whitelist>>
            /\ snapRet' = [op |-> "full", filesAdded |-> FALSE, nil |-> TRUE, err |-> TRUE,
                           contents |-> <<>>]
       ELSE /\ bad = NoPath
            /\ \E ws \in RemovedNow : SnapShotFS(ws)
            /\ snapRet' = [op |-> "full", filesAdded |-> AfterWalk.filesAdded,
                           nil |-> ~AfterWalk.filesAdded, err |-> FALSE,
                           contents |-> IF AfterWalk.filesAdded
                                        THEN ReadAll(tar', ClosedBeforeRead("full"))
                                        ELSE <<>>]

\* The loop of TakeSnapshotOfFiles from the i-th file: os.Lstat fails on a
\* missing file and the pass returns the error.
RECURSIVE FilesFrom(_, _, _, _, _)
FilesFrom(st, d, wl, files, i) ==
    IF i > Len(files) THEN st
    ELSE IF ~FilepathExists(d, files[i]) THEN [st EXCEPT !.err = TRUE]
    ELSE FilesFrom(AddIfChanged(st, d, wl, files[i]), d, wl, files, i + 1)

\* TakeSnapshot(files) with files # nil: TakeSnapshotOfFiles. The result of
\* util.AddToTar is dropped (line 395): the loop goes on and the pass
\* returns what the tar holds.
TakeSnapshotOfFiles(files, bad) ==
    /\ UNCHANGED <<lmVars, cacheVars, buildVars>>
    /\ Layers # <<>>
    /\ Len(Layers) < MaxPasses
    /\ LET st == FilesFrom([Layers |-> Append(Layers, EmptyMap),
                            WhiteoutFiles |-> WhiteoutFiles, tar |-> <<>>,
                            filesAdded |-> FALSE, err |-> FALSE,
                            bad |-> bad, tarErr |-> FALSE],
                           disk, whitelist, files, 1) IN
       /\ bad # NoPath => st.tarErr
       /\ Layers' = st.Layers
       /\ WhiteoutFiles' = st.WhiteoutFiles
       /\ tar' = st.tar
       /\ snapRet' = [op |-> "files", filesAdded |-> st.filesAdded,
                      nil |-> (st.err \/ ~st.filesAdded),
                      err |-> st.err,
                      contents |-> IF st.err \/ ~st.filesAdded THEN <<>>
                                   ELSE ReadAll(st.tar, ClosedBeforeRead("files"))]
    /\ prevDisk' = disk
    /\ UNCHANGED <<disk, whitelist>>

\* An instruction writes p: creates it, or changes its fingerprint.
FsWrite(p, h) ==
    /\ UNCHANGED <<lmVars, cacheVars, buildVars>>
    /\ Layers # <<>>
    /\ Len(Layers) < MaxPasses
    /\ disk[p] # h
    /\ Len(p) > 1 => disk[Parent(p)] # NoFile
    /\ disk' = [disk EXCEPT ![p] = h]
    /\ UNCHANGED <<prevDisk, whitelist, Layers, WhiteoutFiles, tar, snapRet>>

\* An instruction removes p and everything below it.
FsRemove(p) ==
    /\ UNCHANGED <<lmVars, cacheVars, buildVars>>
    /\ Layers # <<>>
    /\ Len(Layers) < MaxPasses
    /\ disk[p] # NoFile
    /\ disk' = [q \in SnapPaths |-> IF IsPrefix(p, q) THEN NoFile ELSE disk[q]]
    /\ UNCHANGED <<prevDisk, whitelist, Layers, WhiteoutFiles, tar, snapRet>>

\* util.MoveVolumeWhitelistToWhitelist after a VOLUME instruction.
AddVolumeToWhitelist(p) ==
    /\ UNCHANGED <<lmVars, cacheVars, buildVars>>
    /\ Layers # <<>>
    /\ Len(Layers) < MaxPasses
    /\ p \notin whitelist
    /\ whitelist' = whitelist \cup {p}
    /\ UNCHANGED <<disk, prevDisk, Layers, WhiteoutFiles, tar, snapRet>>

SnapNext ==
    \/ SnapshotterInit
    \/ \E bad \in TarFailures : TakeSnapshotFull(bad)
    \/ \E files \in FileLists, bad \in TarFailures : TakeSnapshotOfFiles(files, bad)
    \/ \E p \in SnapPaths, h \in Hashes : FsWrite(p, h)
    \/ \E p \in SnapPaths : FsRemove(p)
    \/ \E p \in VolumePaths : AddVolumeToWhitelist(p)

---------------------------------------------------------------------------
(* The layer cache: PushLayerToCache and DoPush (src/unnamed/part_003),    *)
(* CheckCacheForLayer (src/pkg/cache/cache.go)                             *)

\* A reference string is modelled by what name.NewTag makes of it: whether
\* it parses, its repository (a path of components) and its tag.
Destination == [valid |-> TRUE, repo |-> <<"reg", "img">>, tag |-> "latest"]
BadDestination == [valid |-> FALSE, repo |-> <<"reg", "IMG">>, tag |-> "latest"]

\* opts.Cache: "" (unset), the repository derived from the destination,
\* another repository, a string that does not parse.
CacheUnset == [valid |-> TRUE, repo |-> <<>>]
CacheDerived == [valid |-> TRUE, repo |-> <<"reg", "img", "cache">>]
CacheOther == [valid |-> TRUE, repo |-> <<"reg", "other">>]
CacheInvalid == [valid |-> FALSE, repo |-> <<"reg", "OTHER">>]

\* name.NewTag(s, name.WeakValidation)
NewTag(s) == [err |-> ~s.valid, Context |-> s.repo]

Ref(repo, tag) == [repo |-> repo, tag |-> tag]

NoRef == Ref(<<>>, "")

NoLayer == [src |-> "none", of |-> 0]

\* tarball.LayerFromOpener over the contents of the snapshot of command i.
SnapshotLayer(i) == [src |-> "snapshot", of |-> i]

\* The layer of an image that an earlier build left in the registry.
EarlierLayer == [src |-> "earlier", of |-> 0]

NoImage == [present |-> FALSE, layers |-> <<>>, createdBy |-> ""]

\* mutate.Append(empty.Image, Addendum{Layer, History{CreatedBy}})
SingleLayerImage(layer, createdBy) ==
    [present |-> TRUE, layers |-> <<layer>>, createdBy |-> createdBy]

\* The reference PushLayerToCache pushes to: "<context>/cache:<key>" from
\* opts.Destinations[0]; opts.Cache is not read.
PushRef(opts, key) ==
    LET destRef == NewTag(opts.Destination) IN
    IF destRef.err THEN [err |-> TRUE, ref |-> NoRef]
    ELSE [err |-> FALSE, ref |-> Ref(Append(destRef.Context, "cache"), key)]

\* The reference CheckCacheForLayer looks up: opts.Cache, or when that is ""
\* "<context>/cache" from opts.Destinations[0], then ":<key>".
CheckRef(opts, key) ==
    IF opts.Cache.repo = <<>>
    THEN LET destRef == NewTag(opts.Destination) IN
         IF destRef.err THEN [err |-> TRUE, ref |-> NoRef]
         ELSE [err |-> FALSE, ref |-> Ref(Append(destRef.Context, "cache"), key)]
    ELSE LET cacheRef == NewTag(opts.Cache) IN
         IF cacheRef.err THEN [err |-> TRUE, ref |-> NoRef]
         ELSE [err |-> FALSE, ref |-> Ref(cacheRef.Context, key)]

\* PushLayerToCache: DoPush of the single-layer image with fresh options
\* (NoPush false, TarPath ""), so remote.Write; writeErr is its failure.
\* Returns the error and the registry afterwards.
PushLayerToCache(opts, key, layer, createdBy, reg, writeErr) ==
    LET r == PushRef(opts, key) IN
    IF r.err THEN [err |-> "badref", ref |-> NoRef, reg |-> reg]
    ELSE IF writeErr THEN [err |-> "transport", ref |-> r.ref, reg |-> reg]
    ELSE [err |-> "nil", ref |-> r.ref,
          reg |-> Put(reg, r.ref, SingleLayerImage(layer, createdBy))]

\* The registry with ref looked at: a reference nobody wrote or read yet
\* holds what an earlier build left there, an image (exists) or nothing.
Known(reg, ref, exists) ==
    IF ref \in DOMAIN reg THEN reg
    ELSE Put(reg, ref, IF exists THEN SingleLayerImage(EarlierLayer, "earlier") ELSE NoImage)

\* CheckCacheForLayer: env.transport is a failure of remote.Image other than
\* the tag missing, env.layers a failure of img.Layers().
CheckCacheForLayer(opts, key, reg, env) ==
    LET r == CheckRef(opts, key) IN
    IF r.err THEN [err |-> "badref", ref |-> NoRef, img |-> NoImage, reg |-> reg]
    ELSE IF env.transport
    THEN [err |-> "transport", ref |-> r.ref, img |-> NoImage, reg |-> reg]
    ELSE LET reg2 == Known(reg, r.ref, env.exists) IN
         IF ~reg2[r.ref].present
         THEN [err |-> "notfound", ref |-> r.ref, img |-> NoImage, reg |-> reg2]
         ELSE IF env.layers
         THEN [err |-> "layers", ref |-> r.ref, img |-> reg2[r.ref], reg |-> reg2]
         ELSE [err |-> "nil", ref |-> r.ref, img |-> reg2[r.ref], reg |-> reg2]

\* What the registry does on a lookup: remote.Image fails, the tag is
\* missing, the image is there, the image is there and img.Layers() fails.
NoFault == [transport |-> FALSE, exists |-> FALSE, layers |-> FALSE]
LookupEnvs ==
    { [NoFault EXCEPT !.transport = TRUE], NoFault, [NoFault EXCEPT !.exists = TRUE],
      [NoFault EXCEPT !.exists = TRUE, !.layers = TRUE] }

\* The options, keys and layers the cache is exercised with.
CacheOptions ==
    [Cache : {CacheUnset, CacheDerived, CacheOther}, Destination : {Destination}]
CacheKeys == {"k1", "k2"}
CacheLayers == { SnapshotLayer(1), SnapshotLayer(2) }

NoPushYet == [opts |-> [Cache |-> CacheUnset, Destination |-> Destination],
              key |-> "", layer |-> NoLayer, ref |-> NoRef]

\* The number of destinations of a DoPush explored.
MaxDests == 2

OtherDestination == [valid |-> TRUE, repo |-> <<"reg", "two">>, tag |-> "latest"]

\* opts.Destinations, opts.NoPush, opts.TarPath # "" and
\* opts.DockerInsecureSkipTLSVerify.
PushOptions ==
    [Destinations : UNION { [1..n -> {Destination, OtherDestination, BadDestination}] :
                               n \in 0..MaxDests },
     NoPush : BOOLEAN, TarPath : BOOLEAN, Insecure : BOOLEAN]

\* The calls of the loop body that can fail for reasons outside the
\* options: name.NewInsecureRegistry, k8schain.NewNoClient, kc.Resolve,
\* tarball.WriteToFile or remote.Write.
PushSteps == {"insecure", "k8schain", "resolve", "write"}

\* The failure a DoPush meets: at which destination and in which call.
PushFaults == [at : 0..MaxDests, step : PushSteps]

\* A write recorded: the destination and where it went.
Written(dest, to) == [dest |-> dest, to |-> to]

\* Lines 99-101: the tarball branch returns from DoPush, whatever the
\* result of tarball.WriteToFile.
ReturnsAfterWrite(to) == to = "tar"

\* The loop of DoPush from the i-th destination (lines 82-123).
RECURSIVE DoPushFrom(_, _, _, _)
DoPushFrom(st, opts, fault, i) ==
    IF i > Len(opts.Destinations) THEN st
    ELSE LET d == opts.Destinations[i]
             tried == [st EXCEPT !.attempted = Append(@, d)]
             fails(step) == fault.at = i /\ fault.step = step
             to == IF opts.TarPath THEN "tar" ELSE "registry"
             wrote == [tried EXCEPT !.written = Append(@, Written(d, to))]
         IN
         IF NewTag(d).err THEN [tried EXCEPT !.err = "tag"]
         ELSE IF opts.Insecure /\ fails("insecure") THEN [tried EXCEPT !.err = "insecure"]
         ELSE IF opts.TarPath /\ fails("write") THEN [tried EXCEPT !.err = "tarball"]
         ELSE IF ReturnsAfterWrite(to) THEN wrote
         ELSE IF fails("k8schain") THEN [tried EXCEPT !.err = "k8schain"]
         ELSE IF fails("resolve") THEN [tried EXCEPT !.err = "resolve"]
         ELSE IF fails("write") THEN [tried EXCEPT !.err = "push"]
         ELSE DoPushFrom(wrote, opts, fault, i + 1)

NotPushed == [attempted |-> <<>>, written |-> <<>>, err |-> "nil"]

\* DoPush(image, opts), lines 76-125.
DoPush(opts, fault) ==
    IF opts.NoPush THEN NotPushed ELSE DoPushFrom(NotPushed, opts, fault, 1)

NoPushOptions ==
    [Destinations |-> <<>>, NoPush |-> FALSE, TarPath |-> FALSE, Insecure |-> FALSE]

NoFaultYet == [at |-> 0, step |-> "write"]

\* No DoPush is running.
PushIdle ==
    pushCall = [opts |-> NoPushOptions, fault |-> NoFaultYet, res |-> NotPushed, at |-> "idle"]

\* A DoPush about to be called with some options.
PushInit ==
    pushCall \in [opts : PushOptions, fault : {NoFaultYet}, res : {NotPushed}, at : {"called"}]

\* The call of DoPush and its return.
PushCall(fault) ==
    /\ UNCHANGED <<lmVars, snapVars, buildVars, registry, lastPush, cacheRet>>
    /\ pushCall.at = "called"
    /\ fault.at = 0 => fault = NoFaultYet
    /\ fault.at <= Len(pushCall.opts.Destinations)
    /\ pushCall' = [pushCall EXCEPT !.fault = fault, !.res = DoPush(pushCall.opts, fault),
                            !.at = "returned"]

PushNext == \E fault \in PushFaults : PushCall(fault)

\* The cache with nothing pushed or looked up.
CacheRest ==
    /\ registry = [x \in {} |-> NoImage]
    /\ lastPush = NoPushYet
    /\ cacheRet = [op |-> "new", opts |-> NoPushYet.opts, key |-> "", err |-> "nil",
                   ref |-> NoRef, img |-> NoImage]

CacheIdle == CacheRest /\ PushIdle

CachePush(opts, key, layer, writeErr) ==
    /\ UNCHANGED <<lmVars, snapVars, buildVars>>
    /\ LET r == PushLayerToCache(opts, key, layer, "RUN", registry, writeErr) IN
       /\ registry' = r.reg
       /\ lastPush' = IF r.err = "nil"
                      THEN [opts |-> opts, key |-> key, layer |-> layer, ref |-> r.ref]
                      ELSE lastPush
       /\ cacheRet' = [op |-> "push", opts |-> opts, key |-> key, err |-> r.err,
                       ref |-> r.ref, img |-> NoImage]
       /\ UNCHANGED pushCall

CacheCheck(opts, key, env) ==
    /\ UNCHANGED <<lmVars, snapVars, buildVars>>
    /\ LET r == CheckCacheForLayer(opts, key, registry, env) IN
       /\ registry' = r.reg
       /\ cacheRet' = [op |-> "check", opts |-> opts, key |-> key, err |-> r.err,
                       ref |-> r.ref, img |-> r.img]
       /\ UNCHANGED <<lastPush, pushCall>>

CacheNext ==
    \/ \E opts \in CacheOptions, key \in CacheKeys, layer \in CacheLayers,
          writeErr \in BOOLEAN : CachePush(opts, key, layer, writeErr)
    \/ \E opts \in CacheOptions, key \in CacheKeys, env \in LookupEnvs :
          CacheCheck(opts, key, env)

---------------------------------------------------------------------------
(* stageBuilder.buildStage, src/pkg/executor/build.go lines 128-230        *)

\* The number of commands of a stage explored.
MaxCmds == 2

\* What the stage builder reads of a command: CreatedBy() (name),
\* CacheCommand() (cache) and FilesToSnapshot() (files: nil, an empty list,
\* a list of paths). For MAINTAINER commands.GetCommand returns nil.
\* The content of the source file of a COPY in the build context; src is
\* that content, NoSource for a command that reads no file of the context.
SourceContents == {"s1", "s2"}
NoSource == "none"

CmdKinds ==
    { [name |-> "RUN", cache |-> TRUE, files |-> "nil", src |-> NoSource],
      [name |-> "ENV", cache |-> FALSE, files |-> "empty", src |-> NoSource],
      [name |-> "MAINTAINER", cache |-> FALSE, files |-> "nil", src |-> NoSource] }
    \cup { [name |-> "COPY", cache |-> TRUE, files |-> "some", src |-> s] :
              s \in SourceContents }

\* A command's CreatedBy(): the text of the instruction.
CreatedBy(cmd) == cmd.name

\* commands.GetCommand(cmd, ...) == nil
IsNilCommand(cmd) == cmd.name = "MAINTAINER"

CommandLists == UNION { [1..n -> CmdKinds] : n \in 0..MaxCmds }

BuildOptions ==
    [UseCache : BOOLEAN, SingleSnapshot : BOOLEAN,
     Cache : {CacheUnset, CacheInvalid}, Destination : {Destination}]

\* sourceImage.Digest() of the base image of the stage (line 73).
BaseDigest == "base1"

\* Snapshotter.FilesystemKey() after n calls of LayeredMap.Snapshot(): the
\* Key() of a LayeredMap whose modifiedFiles holds n maps, which no
\* snapshot pass fills (only LayeredMap.Add writes them).
FilesystemKey(n) == Key(LayeredMap(<<>>, [i \in 1..n |-> EmptyMap], <<>>))

\* A key that leaves the config out.
CacheKeyWithoutConfig(base, fsKey, cfg, cmd) == SHA256(<<base>> \o <<fsKey>> \o <<cmd>>)

\* Lines 92-100: SHA256 of BaseImage + fsKey + cfHash + cmd, the first
\* three of fixed width, where cfHash is the SHA256 of the JSON of the config.
CacheKeyOf(base, fsKey, cfg, cmd) ==
    SHA256(<<base>> \o <<fsKey>> \o <<SHA256(cfg)>> \o <<cmd>>)

\* stageBuilder.CacheKey(cmd) in the current state of the stage builder.
CacheKey(cmd) == CacheKeyOf(stage.BaseImage, FilesystemKey(passes), config, cmd)

\* What the snapshot can return: no snapshot leaves contents nil and err nil;
\* TakeSnapshotOfFiles of an empty list returns nil, nil.
SnapshotResults(decision, files) ==
    IF decision = "none" THEN {"nil"}
    ELSE IF decision = "targeted" /\ files = "empty" THEN {"nil"}
    ELSE {"nil", "contents", "err"}

NoLookup == [err |-> "none", ref |-> NoRef, img |-> NoImage, reg |-> registry]

\* One record per loop iteration.
LogRecord(i, cmd, key) ==
    [index |-> i, cmd |-> cmd, key |-> key, fsKey |-> FilesystemKey(passes),
     cfg |-> config, lookup |-> "none", extracted |-> FALSE,
     executed |-> FALSE, snap |-> "none", contents |-> "nil", pushed |-> "none",
     appended |-> NoLayer, execFailed |-> FALSE, err |-> "nil"]

Entry(layer, createdBy) == [layer |-> layer, createdBy |-> createdBy]

\* An append that puts the new layer under the ones already there.
MutatePrepend(img, entry) == <<entry>> \o img

\* mutate.Append(s.Image, Addendum{Layer, History{CreatedBy}}): the layer
\* and its history entry go to the end.
MutateAppend(img, entry) == Append(img, entry)

\* A loop that goes on after a failed ExecuteCommand.
ExecuteErrorIgnored(execErr) == FALSE

\* Lines 161-163: if err := dockerCommand.ExecuteCommand(...); err != nil
ExecuteFails(execErr) == execErr

\* A loop that appends a layer whatever the snapshot returned.
ContentsAlways(snap) == TRUE

\* Lines 197-200: contents == nil skips the push and the append.
HasContents(snap) == snap # "nil"

\* A lookup that takes a transport error for fatal.
LookupErrorIsMissButTransport(err) == err \notin {"nil", "transport"}

\* Whether a lookup error lets the build go on to execute the command
\* (line 153: anything but err == nil falls through).
LookupErrorIsMiss(err) == err # "nil"

\* A snapshot decision that layers every command of every stage.
SnapshotEveryCommand(finalStage, singleSnapshot, finalCmd, files) ==
    IF files # "nil" THEN "targeted" ELSE "full"

\* Lines 170-191: whether a snapshot is taken after the command and which.
SnapshotDecision(finalStage, singleSnapshot, finalCmd, files) ==
    IF ~finalStage
    THEN IF finalCmd THEN "full" ELSE "none"
    ELSE IF singleSnapshot
         THEN IF finalCmd THEN "full" ELSE "none"
         ELSE IF files # "nil" THEN "targeted" ELSE "full"

\* A cache hit that appends a layer built from the snapshot pass.
ExtractFreshLayer(rec, st, img, createdBy, extractErr, snapErr) ==
    IF extractErr THEN [rec |-> [rec EXCEPT !.err = "extract"], st |-> st]
    ELSE [rec |-> [rec EXCEPT !.extracted = TRUE, !.snap = "full",
                              !.appended = SnapshotLayer(rec.index)],
          st |-> [st EXCEPT !.passes = st.passes + 1,
                            !.image = Append(st.image,
                                             Entry(SnapshotLayer(rec.index), createdBy))]]

\* extractCachedLayer(image, createdBy), lines 103-126: GetFSFromImage,
\* TakeSnapshot(nil), append of image.Layers()[0].
extractCachedLayer(rec, st, img, createdBy, extractErr, snapErr) ==
    IF extractErr THEN [rec |-> [rec EXCEPT !.err = "extract"], st |-> st]
    ELSE IF snapErr
    THEN [rec |-> [rec EXCEPT !.extracted = TRUE, !.snap = "full", !.err = "snapshot"],
          st |-> [st EXCEPT !.passes = st.passes + 1]]
    ELSE [rec |-> [rec EXCEPT !.extracted = TRUE, !.snap = "full",
                              !.appended = img.layers[1]],
          st |-> [st EXCEPT !.passes = st.passes + 1,
                            !.image = MutateAppend(st.image, Entry(img.layers[1], createdBy))]]

\* Whether an error of PushLayerToCache ends the stage (lines 212-214).
PushErrorIsFatal(err) == err # "nil"

\* The outcome of one iteration: the log record and the new values.
\* Lines 138-228 for the command at index.
Iteration(env) ==
    LET cmd == stage.Commands[index]
        finalCmd == index = Len(stage.Commands)
        key == CacheKey(CreatedBy(cmd))
        rec == LogRecord(index, cmd, key)
        same == [reg |-> registry, image |-> image, config |-> config, passes |-> passes]
        useCache == cmd.cache /\ options.UseCache
        look == IF useCache THEN CheckCacheForLayer(options, key, registry, env.lookup)
                ELSE NoLookup
        rec1 == [rec EXCEPT !.lookup = look.err]
        st1 == [same EXCEPT !.reg = look.reg]
        decision == SnapshotDecision(stage.FinalStage, options.SingleSnapshot, finalCmd, cmd.files)
        rec2 == [rec1 EXCEPT !.executed = TRUE, !.execFailed = env.execErr]
        st2 == [st1 EXCEPT !.config = IF cmd.files = "empty" THEN Append(config, cmd.name)
                                      ELSE config]
        rec3 == [rec2 EXCEPT !.snap = decision]
        st3 == [st2 EXCEPT !.passes = IF decision = "none" THEN passes ELSE passes + 1]
        rec4 == [rec3 EXCEPT !.contents = IF env.snap = "contents" THEN "some" ELSE "nil"]
        layer == SnapshotLayer(index)
        push == IF useCache
                THEN PushLayerToCache(options, key, layer, cmd.name, st3.reg, env.pushErr)
                ELSE [err |-> "nil", ref |-> NoRef, reg |-> st3.reg]
    IN
    IF IsNilCommand(cmd) THEN [rec |-> rec, st |-> same]
    ELSE IF useCache /\ look.err = "nil"
    THEN extractCachedLayer(rec1, st1, look.img, cmd.name, env.extractErr, env.snap = "err")
    ELSE IF useCache /\ ~LookupErrorIsMiss(look.err)
    THEN [rec |-> [rec1 EXCEPT !.err = "lookup"], st |-> st1]
    ELSE IF ExecuteFails(env.execErr)
    THEN [rec |-> [rec2 EXCEPT !.err = "execute"], st |-> st1]
    ELSE IF env.snap = "err"
    THEN [rec |-> [rec3 EXCEPT !.err = "snapshot"], st |-> st3]
    ELSE IF ~HasContents(env.snap)
    THEN [rec |-> rec3, st |-> st3]
    ELSE IF useCache /\ PushErrorIsFatal(push.err)
    THEN [rec |-> [rec4 EXCEPT !.pushed = push.err, !.err = "push"],
          st |-> [st3 EXCEPT !.reg = push.reg]]
    ELSE [rec |-> [rec4 EXCEPT !.pushed = IF useCache THEN "ok" ELSE "none",
                               !.appended = layer],
          st |-> [st3 EXCEPT !.reg = push.reg,
                             !.image = MutateAppend(image, Entry(layer, cmd.name))]]

NilImage == [stage |-> 0, config |-> FALSE, canonical |-> FALSE]

\* config.OnBuild == nil
OnBuildNil == [nil |-> TRUE, triggers |-> <<>>]

\* snapshot.NewLayeredMap(hasher)
NewLayeredMap == LayeredMap(<<>>, <<>>, <<>>)

\* snapshot.NewSnapshotter(l, dir); inits counts the calls of Init.
NewSnapshotter(l) == [l |-> l, inits |-> 0]

NoBuilder ==
    [Commands |-> <<>>, OnBuild |-> OnBuildNil,
     Snapshotter |-> NewSnapshotter(NewLayeredMap), steps |-> <<>>]

Returned(img, err) == [img |-> img, err |-> err]

NotReturned == [img |-> NilImage, err |-> "none"]

\* DoBuild not running.
DoBuildIdle ==
    doBuild = [stages |-> <<>>, Reproducible |-> FALSE, index |-> 1, sb |-> NoBuilder,
               built |-> <<>>, saved |-> {}, trace |-> <<>>, ret |-> NotReturned,
               at |-> "idle"]

BuildIdle ==
    /\ DoBuildIdle
    /\ stage = [Commands |-> <<>>, FinalStage |-> TRUE, BaseImage |-> BaseDigest]
    /\ options = [UseCache |-> FALSE, SingleSnapshot |-> FALSE, Cache |-> CacheUnset,
               Destination |-> Destination]
    /\ status = "new"
    /\ index = 1
    /\ image = <<>>
    /\ config = <<>>
    /\ passes = 0
    /\ log = <<>>

\* NewStageBuilder for any stage and options.
BuildInitState ==
    /\ DoBuildIdle
    /\ stage \in [Commands : CommandLists, FinalStage : BOOLEAN, BaseImage : {BaseDigest}]
    /\ options \in BuildOptions
    /\ status = "new"
    /\ index = 1
    /\ image = <<>>
    /\ config = <<>>
    /\ passes = 0
    /\ log = <<>>

AfterCommand(i) == IF i >= Len(stage.Commands) THEN "done" ELSE "loop"

\* Lines 129-137: unpack the base image, Snapshotter.Init.
BuildStart(unpackErr, initErr) ==
    /\ UNCHANGED <<lmVars, snapVars, cacheVars>>
    /\ status = "new"
    /\ status' = IF unpackErr \/ initErr THEN "failed" ELSE AfterCommand(0)
    /\ passes' = IF unpackErr THEN passes ELSE passes + 1
    /\ UNCHANGED <<stage, options, index, image, config, log, doBuild>>

\* One iteration of the loop of lines 138-228, the environment being env.
BuildCommand(env) ==
    /\ UNCHANGED <<lmVars, snapVars, lastPush, cacheRet, pushCall>>
    /\ status = "loop"
    /\ LET r == Iteration(env) IN
       /\ log' = Append(log, r.rec)
       /\ registry' = r.st.reg
       /\ image' = r.st.image
       /\ config' = r.st.config
       /\ passes' = r.st.passes
       /\ status' = IF r.rec.err # "nil" THEN "failed" ELSE AfterCommand(index)
       /\ index' = IF r.rec.err # "nil" THEN index ELSE index + 1
    /\ UNCHANGED <<stage, options, doBuild>>

QuietEnv ==
    [lookup |-> NoFault, extractErr |-> FALSE, execErr |-> FALSE, snap |-> "nil",
     pushErr |-> FALSE]

UsesCache == stage.Commands[index].cache /\ options.UseCache

IsHit(lk) ==
    CheckCacheForLayer(options, CacheKey(CreatedBy(stage.Commands[index])), registry,
                       lk).err = "nil"

\* The iteration of a command for which GetCommand returns nil (line 144).
BuildNilCommand ==
    /\ status = "loop"
    /\ IsNilCommand(stage.Commands[index])
    /\ BuildCommand(QuietEnv)

\* The iteration of a command found in the cache (lines 151-158).
BuildCachedCommand(lk, extractErr, snapErr) ==
    /\ status = "loop"
    /\ ~IsNilCommand(stage.Commands[index])
    /\ UsesCache /\ IsHit(lk)
    /\ BuildCommand([QuietEnv EXCEPT !.lookup = lk, !.extractErr = extractErr,
                                     !.snap = IF snapErr THEN "err" ELSE "nil"])

\* The iteration of a command that is executed (lines 161-227).
BuildExecutedCommand(lk, execErr, snap, pushErr) ==
    /\ status = "loop"
    /\ ~IsNilCommand(stage.Commands[index])
    /\ IF UsesCache THEN ~IsHit(lk) ELSE lk = NoFault
    /\ IF execErr THEN snap = "nil"
       ELSE LET cmd == stage.Commands[index] IN
            snap \in SnapshotResults(SnapshotDecision(stage.FinalStage,
                                        options.SingleSnapshot,
                                        index = Len(stage.Commands), cmd.files),
                                     cmd.files)
    /\ pushErr => UsesCache /\ snap = "contents"
    /\ BuildCommand([QuietEnv EXCEPT !.lookup = lk, !.execErr = execErr,
                                     !.snap = snap, !.pushErr = pushErr])

\* DoBuild, lines 243-245: buildStage returned an error.
BuildStageFailed ==
    /\ UNCHANGED <<lmVars, snapVars, cacheVars>>
    /\ status = "failed"
    /\ doBuild.at = "idle"
    /\ doBuild' = [doBuild EXCEPT !.ret = Returned(NilImage, "buildstage"),
                                    !.at = "returned"]
    /\ UNCHANGED <<stage, options, status, index, image, config, passes, log>>

BuildNext ==
    \/ BuildStageFailed
    \/ \E unpackErr \in BOOLEAN, initErr \in BOOLEAN : BuildStart(unpackErr, initErr)
    \/ BuildNilCommand
    \/ \E lk \in LookupEnvs, extractErr \in BOOLEAN, snapErr \in BOOLEAN :
          BuildCachedCommand(lk, extractErr, snapErr)
    \/ \E lk \in LookupEnvs, execErr \in BOOLEAN, snap \in {"nil", "contents", "err"},
          pushErr \in BOOLEAN : BuildExecutedCommand(lk, execErr, snap, pushErr)

---------------------------------------------------------------------------
(* DoBuild, NewStageBuilder and resolveOnBuild, src/pkg/executor/build.go  *)
(* lines 232-273, 54-84, 308-324. buildStage is the loop above; here only  *)
(* the commands it runs and whether it fails matter.                       *)

\* The number of stages of a Dockerfile explored.
MaxStages == 2

\* The trigger strings of the OnBuild field of a base image's config.
Triggers == { <<"RUN t1", "RUN t2">>, <<"RUN t1", "BAD">> }

OnBuilds == {OnBuildNil} \cup { [nil |-> FALSE, triggers |-> s] : s \in Triggers }

\* The commands of a stage as dockerfile.Stages returns them.
OwnCommands == { <<>>, << <<"stage", "COPY c1">>, <<"stage", "RUN c2">> >> }

\* dockerfile.ParseCommands: one command per trigger, in order, or an error.
ParseCommands(trigs) ==
    IF \E k \in DOMAIN trigs : trigs[k] = "BAD"
    THEN [err |-> TRUE, cmds |-> <<>>]
    ELSE [err |-> FALSE, cmds |-> [k \in DOMAIN trigs |-> <<"parsed", trigs[k]>>]]

\* A resolveOnBuild that puts the triggers after the stage's commands.
ResolveOnBuildAfter(st, onBuild) ==
    IF onBuild.nil THEN [err |-> FALSE, Commands |-> st.Commands, OnBuild |-> onBuild]
    ELSE LET r == ParseCommands(onBuild.triggers) IN
         IF r.err THEN [err |-> TRUE, Commands |-> st.Commands, OnBuild |-> onBuild]
         ELSE [err |-> FALSE, Commands |-> st.Commands \o r.cmds, OnBuild |-> OnBuildNil]

\* resolveOnBuild(stage, config), lines 308-324.
ResolveOnBuild(st, onBuild) ==
    IF onBuild.nil THEN [err |-> FALSE, Commands |-> st.Commands, OnBuild |-> onBuild]
    ELSE LET r == ParseCommands(onBuild.triggers) IN
         IF r.err THEN [err |-> TRUE, Commands |-> st.Commands, OnBuild |-> onBuild]
         ELSE [err |-> FALSE, Commands |-> r.cmds \o st.Commands, OnBuild |-> OnBuildNil]

\* The stages dockerfile.Stages can return, with the OnBuild of each
\* stage's base image.
StageKinds ==
    [Commands : OwnCommands, OnBuild : OnBuilds,
     FinalStage : BOOLEAN, SaveStage : BOOLEAN]

StageLists == UNION { [1..n -> StageKinds] : n \in 0..MaxStages }

DoBuildInit ==
    doBuild \in [stages : StageLists, Reproducible : BOOLEAN, index : {1},
                 sb : {NoBuilder}, built : {<<>>}, saved : {{}}, trace : {<<>>},
                 ret : {NotReturned}, at : {"new"}]

\* mutate.Config(stageBuilder.Image, stageBuilder.ConfigFile.Config)
SourceImage(i) == [stage |-> i, config |-> TRUE, canonical |-> FALSE]

\* mutate.Canonical
Canonical(img) == [img EXCEPT !.canonical = TRUE]

\* A DoBuild that canonicalizes the image of every stage.
CanonicalizeAlways(finalStage, reproducible) == reproducible

\* Lines 250-256: only the image of the final stage is canonicalized.
Canonicalize(finalStage, reproducible) == finalStage /\ reproducible

DoBuildFrame ==
    UNCHANGED <<lmVars, snapVars, cacheVars, stage, options, status, index, image,
                config, passes, log>>

\* The Snapshotter of the stage builder of the stage before, if any.
PrevSnapshotter ==
    IF doBuild.built = <<>> THEN NewSnapshotter(NewLayeredMap)
    ELSE doBuild.built[Len(doBuild.built)].Snapshotter

\* A stage builder that goes on with the Snapshotter of the stage before.
KeptSnapshotter(prev) == prev

\* NewStageBuilder, lines 70-71: a LayeredMap and a Snapshotter of its own.
StageSnapshotter(prev) == NewSnapshotter(NewLayeredMap)

\* Line 239: NewStageBuilder(opts, stage); otherErr is a failure of
\* RetrieveSourceImage, RetrieveConfigFile, getHasher or Digest.
DoBuildNewStageBuilder(otherErr) ==
    /\ DoBuildFrame
    /\ doBuild.at = "new"
    /\ doBuild.index <= Len(doBuild.stages)
    /\ LET st == doBuild.stages[doBuild.index]
           r == ResolveOnBuild(st, st.OnBuild)
       IN  IF otherErr \/ r.err
           THEN doBuild' = [doBuild EXCEPT !.ret = Returned(NilImage, "stagebuilder"),
                                           !.at = "returned"]
           ELSE doBuild' = [doBuild EXCEPT !.sb = [Commands |-> r.Commands,
                                                   OnBuild |-> r.OnBuild,
                                                   Snapshotter |->
                                                       StageSnapshotter(PrevSnapshotter),
                                                   steps |-> <<>>],
                                           !.at = "build"]

\* What DoBuild did to the disk, in order: op is "buildStage" (which
\* unpacks the base image first), "tarball", "extract" or "wipe".
Event(op, i) == [op |-> op, key |-> i]

\* A DoBuild that persists every stage that is not final.
PersistsAlways(st) == TRUE

\* Line 259: if stage.SaveStage
Persists(st) == st.SaveStage

\* Snapshotter.Init: a full pass, which pushes a layer and records the hash
\* of what the base image unpacked.
InitPass(sn) ==
    [l |-> LayeredMap(Append(sn.l.layers, Put(EmptyMap, <<"a">>, "h1")),
                      Append(sn.l.modifiedFiles, EmptyMap),
                      Append(sn.l.whiteouts, EmptyMap)),
     inits |-> sn.inits + 1]

\* The passes of the commands of a stage: a layer with a changed file and
\* the mark of a removed one.
CommandPasses(sn, cmds) ==
    IF cmds = <<>> THEN sn
    ELSE [sn EXCEPT !.l = LayeredMap(Append(sn.l.layers, Put(EmptyMap, <<"a">>, "h2")),
                                     Append(sn.l.modifiedFiles, EmptyMap),
                                     Append(sn.l.whiteouts,
                                            Put(EmptyMap, <<"a", "b">>, <<"a", "b">>)))]

\* Where buildStage can fail.
BuildFailures == {"nil", "unpack", "init", "command"}

\* buildStage, lines 129-230, as it uses the stage builder sb: what it did,
\* in order, and the Snapshotter it leaves. failAt is where it fails.
BuildStageOf(sb, failAt) ==
    LET unpack == << <<"unpack">> >>
        init == Append(unpack, <<"init">>)
    IN  IF failAt = "unpack" THEN [sb EXCEPT !.steps = unpack]
        ELSE IF failAt = "init"
        THEN [sb EXCEPT !.steps = init, !.Snapshotter = InitPass(sb.Snapshotter)]
        ELSE IF failAt = "command"
        THEN [sb EXCEPT !.steps = Append(init, sb.Commands[1]),
                        !.Snapshotter = InitPass(sb.Snapshotter)]
        ELSE [sb EXCEPT !.steps = init \o sb.Commands,
                        !.Snapshotter = CommandPasses(InitPass(sb.Snapshotter), sb.Commands)]

\* Line 243: stageBuilder.buildStage(opts), which runs s.Stage.Commands
\* with s.ConfigFile.Config, or fails.
DoBuildStage(failAt) ==
    /\ DoBuildFrame
    /\ doBuild.at = "build"
    /\ failAt = "command" => doBuild.sb.Commands # <<>>
    /\ LET sb == BuildStageOf(doBuild.sb, failAt) IN
       IF failAt # "nil"
       THEN doBuild' = [doBuild EXCEPT !.trace = Append(@, Event("buildStage", doBuild.index)),
                                       !.sb = sb,
                                       !.ret = Returned(NilImage, "buildstage"),
                                       !.at = "returned"]
       ELSE doBuild' = [doBuild EXCEPT
                !.trace = Append(@, Event("buildStage", doBuild.index)),
                !.sb = sb,
                !.built = Append(@, [stage |-> doBuild.index,
                                     commands |-> sb.Commands,
                                     onBuild |-> sb.OnBuild,
                                     Snapshotter |-> sb.Snapshotter,
                                     steps |-> sb.steps]),
                !.at = "built"]

\* Lines 246-271: the rest of the loop body, and line 272 after the last
\* stage. imgErr is a failure of mutate.Config or mutate.Canonical, saveErr
\* of saveStageAsTarball, extractErr of extractImageToDependecyDir,
\* deleteErr of util.DeleteFilesystem.
DoBuildFinishStage(imgErr, saveErr, extractErr, deleteErr) ==
    /\ DoBuildFrame
    /\ doBuild.at = "built"
    /\ LET i == doBuild.index
           st == doBuild.stages[i]
           sourceImage == IF Canonicalize(st.FinalStage, doBuild.Reproducible)
                          THEN Canonical(SourceImage(i)) ELSE SourceImage(i)
           last == i = Len(doBuild.stages)
           tarball == Append(doBuild.trace, Event("tarball", i))
           extract == Append(tarball, Event("extract", i))
           kept == IF Persists(st) THEN extract ELSE doBuild.trace
           keptImages == IF Persists(st) THEN doBuild.saved \cup {sourceImage}
                         ELSE doBuild.saved
       IN  IF imgErr
           THEN doBuild' = [doBuild EXCEPT !.ret = Returned(NilImage, "image"),
                                           !.at = "returned"]
           ELSE IF st.FinalStage
           THEN doBuild' = [doBuild EXCEPT !.ret = Returned(sourceImage, "nil"),
                                           !.at = "returned"]
           ELSE IF Persists(st) /\ saveErr
           THEN doBuild' = [doBuild EXCEPT !.ret = Returned(NilImage, "save"),
                                           !.at = "returned"]
           ELSE IF Persists(st) /\ extractErr
           THEN doBuild' = [doBuild EXCEPT
                    !.trace = tarball,
                    !.saved = keptImages,
                    !.ret = Returned(NilImage, "extract"), !.at = "returned"]
           ELSE IF deleteErr
           THEN doBuild' = [doBuild EXCEPT
                    !.trace = kept,
                    !.saved = keptImages,
                    !.ret = Returned(NilImage, "delete"), !.at = "returned"]
           ELSE doBuild' = [doBuild EXCEPT
                    !.trace = Append(kept, Event("wipe", i)),
                    !.saved = keptImages,
                    !.sb = NoBuilder,
                    !.index = IF last THEN i ELSE i + 1,
                    !.ret = IF last THEN Returned(NilImage, "nil") ELSE @,
                    !.at = IF last THEN "returned" ELSE "new"]

\* Line 272: the loop over no stage at all ends and DoBuild returns nil and
\* err, the nil error of dockerfile.Stages.
DoBuildNoStage ==
    /\ DoBuildFrame
    /\ doBuild.at = "new"
    /\ doBuild.stages = <<>>
    /\ doBuild' = [doBuild EXCEPT !.ret = Returned(NilImage, "nil"), !.at = "returned"]

DoBuildNext ==
    \/ DoBuildNoStage
    \/ \E otherErr \in BOOLEAN : DoBuildNewStageBuilder(otherErr)
    \/ \E failAt \in BuildFailures : DoBuildStage(failAt)
    \/ \E imgErr \in BOOLEAN, saveErr \in BOOLEAN, extractErr \in BOOLEAN,
          deleteErr \in BOOLEAN :
          DoBuildFinishStage(imgErr, saveErr, extractErr, deleteErr)

---------------------------------------------------------------------------
(* The specifications                                                      *)

StageIdle ==
    /\ stage = [Commands |-> <<>>, FinalStage |-> TRUE, BaseImage |-> BaseDigest]
    /\ options = [UseCache |-> FALSE, SingleSnapshot |-> FALSE, Cache |-> CacheUnset,
               Destination |-> Destination]
    /\ status = "new" /\ index = 1 /\ image = <<>> /\ config = <<>>
    /\ passes = 0 /\ log = <<>>

InitDoBuild == DoBuildInit /\ StageIdle /\ LMInit /\ SnapIdle /\ CacheIdle

SpecDoBuild == InitDoBuild /\ [][DoBuildNext]_vars

InitKeyTest == LMFresh /\ KeyTestInit /\ SnapIdle /\ CacheIdle /\ BuildIdle

SpecKeyTest == InitKeyTest /\ [][KeyTestNext]_vars

InitLM == LMInit /\ SnapIdle /\ CacheIdle /\ BuildIdle

SpecLM == InitLM /\ [][LMNext]_vars

InitSnap == SnapInitState /\ LMInit /\ CacheIdle /\ BuildIdle

SpecSnap == InitSnap /\ [][SnapNext]_vars

InitCache == CacheIdle /\ LMInit /\ SnapIdle /\ BuildIdle

InitPush == PushInit /\ CacheRest /\ LMInit /\ SnapIdle /\ BuildIdle

SpecPush == InitPush /\ [][PushNext]_vars

SpecCache == InitCache /\ [][CacheNext]_vars

Init == BuildInitState /\ CacheIdle /\ LMInit /\ SnapIdle

Next == BuildNext

Spec == Init /\ [][Next]_vars

---------------------------------------------------------------------------
(* Claims about the LayeredMap                                             *)

HoldersOf(ls, p) == { i \in 1..Len(ls) : p \in DOMAIN ls[i] }

HighestRule(ls, p, got) ==
    IF HoldersOf(ls, p) = {}
    THEN ~got.ok
    ELSE got.ok /\ got.v = ls[SetMax(HoldersOf(ls, p))][p]

\* C1: after any sequence of Snapshot, Add, MaybeAdd and MaybeAddWhiteout,
\* Get(p) is the fingerprint of the highest-index layer holding p (absent iff
\* no layer holds p), and GetWhiteout(p) follows the same rule over whiteouts.
C1_GetHighestLayer ==
    \A p \in LMPaths :
        /\ HighestRule(layers, p, Get(p))
        /\ HighestRule(whiteouts, p, GetWhiteout(p))

\* Two layers hold p with different fingerprints and Get answers the upper one.
C1_Witness ==
    \E p \in LMPaths :
        /\ Len(layers) >= 2
        /\ p \in DOMAIN layers[1] /\ p \in DOMAIN layers[2]
        /\ layers[1][p] # layers[2][p]
        /\ Get(p).v = layers[2][p]
        /\ p \in DOMAIN whiteouts[1]

---------------------------------------------------------------------------
(* Claims about the Snapshotter                                            *)

EntriesOf(tr, k) == { tr[i].path : i \in { j \in DOMAIN tr : tr[j].kind = k } }

\* The step is a full-filesystem pass of TakeSnapshot(nil).
FullPassStep == Len(Layers') = Len(Layers) + 1 /\ snapRet'.op = "full"

\* C2: a full-filesystem pass returns nil iff it produced neither a file
\* entry nor a whiteout; a pass whose only change is one deleted file returns
\* a layer holding only that whiteout.
C2_NilIffNothingProduced ==
    snapRet.op = "full" => (snapRet.nil <=> tar = <<>>)

\* C3: a full pass that follows a full pass (or Init) writes an entry for
\* every changed path that is not whitelisted (a file entry for a created or
\* modified path, a whiteout for a deleted one) and no entry of any kind for
\* a whitelisted path.
C3_SnapshotCompleteness ==
    [][ (FullPassStep /\ snapRet.op \in {"init", "full"}) =>
          \A p \in SnapPaths :
              /\ PathInWhitelist(p, whitelist) =>
                    /\ p \notin EntriesOf(tar', "file")
                    /\ p \notin EntriesOf(tar', "whiteout")
              /\ (~PathInWhitelist(p, whitelist) /\ prevDisk[p] # disk[p]) =>
                    IF disk[p] = NoFile
                    THEN p \in EntriesOf(tar', "whiteout")
                    ELSE p \in EntriesOf(tar', "file") ]_vars

\* C4: a full pass writes no whiteout for a missing path one of whose
\* ancestor directories has a recorded whiteout, and no whiteout twice.
C4_WhiteoutDominance ==
    snapRet.op = "full" =>
        \A i \in DOMAIN tar :
            tar[i].kind = "whiteout" =>
                /\ ~\E k \in 1..(Len(tar[i].path) - 1) :
                        LET dir == SubSeq(tar[i].path, 1, k) IN
                        dir \in DOMAIN WhiteoutFiles /\ WhiteoutFiles[dir]
                /\ \A j \in DOMAIN tar : tar[j] = tar[i] => j = i

---------------------------------------------------------------------------
(* Claims about the layer cache                                            *)

\* C9: after PushLayerToCache(key, L) succeeded, a CheckCacheForLayer(key)
\* with the same options (remote.Image and img.Layers not failing) looks up
\* the reference that was pushed and returns an image whose single layer is L.
C9_CacheRoundTrip ==
    ( /\ cacheRet.op = "check"
      /\ lastPush # NoPushYet
      /\ cacheRet.opts = lastPush.opts /\ cacheRet.key = lastPush.key
      /\ cacheRet.err \notin {"transport", "layers"} )
    => /\ cacheRet.ref = lastPush.ref
       /\ cacheRet.err = "nil"
       /\ cacheRet.img.layers = <<lastPush.layer>>

---------------------------------------------------------------------------
(* Claims about the stage builder, checked under Spec.                     *)

Last(s) == s[Len(s)]

\* The step appended a record to the log.
Logged == Len(log') = Len(log) + 1

\* The snapshot the matrix of the specification prescribes after record r.
Prescribed(r) ==
    IF stage.FinalStage /\ ~options.SingleSnapshot
    THEN IF r.cmd.files = "nil" THEN "full" ELSE "targeted"
    ELSE IF r.index = Len(stage.Commands) THEN "full" ELSE "none"

LookupFailures == {"notfound", "transport", "badref", "layers"}

\* C5: every instruction that is executed and succeeds is followed by the
\* snapshot of the matrix: in a non-final stage and in single-snapshot mode
\* a full pass after the last instruction only, otherwise a pass after every
\* instruction, targeted when FilesToSnapshot() is non-nil and full when nil.
C5_SnapshotMatrix ==
    \A i \in DOMAIN log :
        (log[i].executed /\ log[i].err # "execute") => log[i].snap = Prescribed(log[i])

\* A final stage without single-snapshot mode that took a targeted and a
\* full pass, and stages that skipped the pass after their first command.
C5_Witness ==
    /\ stage.FinalStage /\ ~options.SingleSnapshot
    /\ Len(log) = 2
    /\ log[1].executed /\ log[1].snap = "targeted" /\ log[1].cmd.files = "some"
    /\ log[2].executed /\ log[2].snap = "full" /\ log[2].cmd.files = "nil"

\* C6: a non-final stage, and a final stage in single-snapshot mode, appends
\* at most one layer to its base image.
C6_AtMostOneLayer ==
    (~stage.FinalStage \/ options.SingleSnapshot) => Len(image) <= 1

\* C7: on a cache hit the command is not executed and nothing is pushed;
\* when the extraction and the snapshot pass succeed, the image is extracted,
\* one full pass is taken, and exactly the cached layer is appended with the
\* command's createdBy; when they fail no layer is appended.
C7_CacheHit ==
    [][ (Logged /\ Last(log').lookup = "nil") =>
          LET rec == Last(log')
              ref == CheckRef(options, rec.key).ref
              cached == registry'[ref].layers[1]
          IN  /\ ~rec.executed
              /\ rec.pushed = "none"
              /\ config' = config
              /\ DOMAIN registry' \subseteq DOMAIN registry \cup {ref}
              /\ \A r \in DOMAIN registry : registry'[r] = registry[r]
              /\ rec.err = "nil" =>
                    /\ rec.extracted
                    /\ rec.snap = "full"
                    /\ passes' = passes + 1
                    /\ rec.appended = cached
                    /\ image' = Append(image, Entry(cached, rec.cmd.name))
              /\ rec.err # "nil" => image' = image
      ]_vars

\* A finished stage whose first command was served from the cache.
C7_Witness ==
    /\ status = "done"
    /\ Len(log) >= 1
    /\ log[1].lookup = "nil" /\ log[1].err = "nil" /\ ~log[1].executed
    /\ log[1].appended = EarlierLayer
    /\ image[1] = Entry(EarlierLayer, log[1].cmd.name)

\* C8: a failure of PushLayerToCache does not end the build: the fresh
\* layer is still appended and the loop goes on.
C8_PushFailureNotFatal ==
    \A i \in DOMAIN log :
        log[i].pushed \notin {"none", "ok"} =>
            /\ log[i].err = "nil"
            /\ log[i].appended = SnapshotLayer(log[i].index)

\* C10: whatever error the cache lookup returns, the build does not fail
\* on it and the command takes the miss path: it is executed, nothing is
\* extracted, the prescribed snapshot follows, and contents are appended as
\* a fresh layer.
C10_LookupFailureIsMiss ==
    \A i \in DOMAIN log :
        log[i].lookup \in LookupFailures =>
            /\ log[i].executed
            /\ ~log[i].extracted
            /\ log[i].err \in {"nil", "execute", "snapshot", "push"}
            /\ log[i].err # "execute" => log[i].snap = Prescribed(log[i])
            /\ (log[i].err = "nil" /\ log[i].contents = "some") =>
                   log[i].appended = SnapshotLayer(log[i].index)
            /\ (log[i].err = "nil" /\ log[i].contents = "nil") =>
                   log[i].appended = NoLayer

\* A finished stage whose lookups failed with a transport error and with
\* unreadable layers, and whose commands were executed and appended.
C10_Witness ==
    /\ status = "done"
    /\ Len(log) = 2
    /\ log[1].lookup = "transport" /\ log[1].appended = SnapshotLayer(1)
    /\ log[2].lookup = "layers" /\ log[2].appended = SnapshotLayer(2)
    /\ Len(image) = 2

\* The step looked up no reference or one, and wrote none.
NothingPushed(key) ==
    /\ DOMAIN registry' \subseteq DOMAIN registry \cup {CheckRef(options, key).ref}
    /\ \A r \in DOMAIN registry : registry'[r] = registry[r]
    /\ \A r \in DOMAIN registry' \ DOMAIN registry :
           registry'[r] \in {NoImage, SingleLayerImage(EarlierLayer, "earlier")}

\* C11: an executed instruction whose snapshot returned nil appends no
\* layer (the image after it is the image before it) and pushes nothing to
\* the cache.
C11_NilSnapshotNoLayer ==
    [][ ( /\ Logged
          /\ Last(log').executed
          /\ Last(log').err = "nil"
          /\ Last(log').contents = "nil" )
        => /\ image' = image
           /\ Last(log').appended = NoLayer
           /\ Last(log').pushed = "none"
           /\ NothingPushed(Last(log').key)
      ]_vars

\* A cacheable command of a final stage was executed, its pass over the
\* filesystem found nothing changed, and the image has no layer.
C11_Witness ==
    /\ Len(log) = 1
    /\ log[1].executed /\ log[1].err = "nil"
    /\ log[1].cmd.cache /\ options.UseCache
    /\ log[1].snap = "full" /\ log[1].contents = "nil"
    /\ image = <<>>

\* The createdBy strings of the history of the image, oldest first.
HistoryOf(img) == [k \in DOMAIN img |-> img[k].createdBy]

\* The processed instructions: the records of the commands that
\* GetCommand returned and that completed without error.
Processed == SelectSeq(log, LAMBDA r : ~IsNilCommand(r.cmd) /\ r.err = "nil")

\* C12: every processed instruction is in the history of the image with
\* its createdBy string, whether or not it added a layer.
C12_HistoryRecordsAll ==
    HistoryOf(image) = [k \in DOMAIN Processed |-> Processed[k].cmd.name]

\* The records of the instructions that produced a non-empty snapshot or
\* were served from the cache.
Producers ==
    SelectSeq(log, LAMBDA r : r.err = "nil" /\ (r.lookup = "nil" \/ r.contents = "some"))

\* The layers on top of the base image are, in order, those of the
\* instructions that produced a non-empty snapshot or a cache hit, each with
\* the createdBy string of its instruction.
LayersFollowProducers ==
    /\ Len(image) = Len(Producers)
    /\ \A k \in DOMAIN image :
          /\ image[k] = Entry(Producers[k].appended, Producers[k].cmd.name)
          /\ Producers[k].appended # NoLayer
          /\ \A j \in DOMAIN image : j < k => Producers[j].index < Producers[k].index

\* A step leaves the image alone or adds one layer at its end.
AppendOnly ==
    \/ image' = image
    \/ /\ Len(image') = Len(image) + 1
       /\ SubSeq(image', 1, Len(image)) = image

\* C13: at every point the layers are those of the producing instructions
\* in instruction order, and every step only appends at the end.
C13_LayerOrder == []LayersFollowProducers /\ [][AppendOnly]_vars

\* A finished stage with a cached layer under a fresh one.
C13_Witness ==
    /\ status = "done"
    /\ Len(image) = 2
    /\ image[1].layer = EarlierLayer
    /\ image[2].layer = SnapshotLayer(2)

---------------------------------------------------------------------------
(* Claims about MaybeAdd, MaybeAddWhiteout, the flattened paths and Key,   *)
(* checked under SpecLM.                                                   *)

MapUnchanged == UNCHANGED <<layers, modifiedFiles, whiteouts>>

\* C14: MaybeAdd(p) returns true and writes the current fingerprint of p
\* into the top layer exactly when Get(p) is absent or differs from it;
\* otherwise it returns false and the map is unchanged; when the hasher
\* fails it returns the error and the map is unchanged.
C14_MaybeAdd ==
    [][ lmRet'.op = "MaybeAdd" =>
          LET p == lmRet'.s
              cur == lmRet'.v
              old == Get(p)
          IN  IF lmRet'.err THEN ~lmRet'.added /\ MapUnchanged
              ELSE /\ lmRet'.added <=> (~old.ok \/ old.v # cur)
                   /\ lmRet'.added =>
                         /\ layers' = [layers EXCEPT ![Len(layers)] =
                                          Put(layers[Len(layers)], p, cur)]
                         /\ UNCHANGED <<modifiedFiles, whiteouts>>
                   /\ ~lmRet'.added => MapUnchanged
      ]_vars

\* MaybeAdd returned false for a path whose fingerprint a lower layer holds.
C14_Witness ==
    /\ lmRet.op = "MaybeAdd" /\ ~lmRet.added /\ ~lmRet.err
    /\ Len(layers) = 2
    /\ lmRet.s \in DOMAIN layers[1] /\ lmRet.s \notin DOMAIN layers[2]
    /\ layers[1][lmRet.s] = lmRet.v

\* C15: MaybeAddWhiteout(p) returns true exactly when p is not marked in
\* the topmost whiteout map, and then marks it there; a mark in a lower
\* whiteout map alone does not make it return false.
C15_MaybeAddWhiteoutTopOnly ==
    [][ lmRet'.op = "MaybeAddWhiteout" =>
          LET p == lmRet'.s
              top == whiteouts[Len(whiteouts)]
          IN  /\ lmRet'.added <=> p \notin DOMAIN top
              /\ lmRet'.added => p \in DOMAIN whiteouts'[Len(whiteouts')]
      ]_vars

\* The keys of all the layers.
AllKeys(ls) == UNION { DOMAIN ls[i] : i \in DOMAIN ls }

\* C16: GetFlattenedPathsForWhiteOut returns the keys of all the layers
\* but those whose basename begins with ".wh.".
C16_FlattenedExcludesWhiteouts ==
    GetFlattenedPathsForWhiteOut(layers) = { p \in AllKeys(layers) : ~IsWhiteoutName(p) }

\* The fs-hash layers with the two fingerprints exchanged: the same files
\* hashed with other mtimes.
OtherHash(h) == IF h = "h1" THEN "h2" ELSE "h1"
OtherMtimes(ls) == [i \in DOMAIN ls |-> [p \in DOMAIN ls[i] |-> OtherHash(ls[i][p])]]

\* The fs-hash layers a LayeredMap with the tar-hash layers mf can hold
\* beside ls.
Variants(ls) == { ls, OtherMtimes(ls), [i \in DOMAIN ls |-> EmptyMap] }

TestMap1 == [x \in { <<"hey">>, <<"hi">> } |-> IF x = <<"hey">> THEN "hi" ELSE "hey"]
TestMap2 == [x \in { <<"hi">>, <<"hey">> } |-> IF x = <<"hi">> THEN "hey" ELSE "hi"]

\* C18: run on the two LayeredMaps of Test_Key, each with the one layer
\* {hey: hi, hi: hey}, the test passes: both Key() calls return and the
\* two keys differ.
C18_TestKeyDiffers ==
    ( /\ keyTest.lm1 = TestLayeredMap(TestMap1)
      /\ keyTest.lm2 = TestLayeredMap(TestMap2)
      /\ keyTest.at \in {"pass", "fatal"} )
    => keyTest.at = "pass" /\ keyTest.key1 # keyTest.key2

---------------------------------------------------------------------------
(* Claims about NewStageBuilder and DoBuild, checked under SpecDoBuild.    *)

\* Some trigger of the stage's base image does not parse.
BadTrigger(st) == \E k \in DOMAIN st.OnBuild.triggers : st.OnBuild.triggers[k] = "BAD"

\* cmds is the parsed triggers in their order, then own in its order.
TriggersThenOwn(cmds, trigs, own) ==
    /\ Len(cmds) = Len(trigs) + Len(own)
    /\ \A k \in DOMAIN trigs : cmds[k] = <<"parsed", trigs[k]>>
    /\ \A k \in DOMAIN own : cmds[Len(trigs) + k] = own[k]

\* C19: a stage whose base image has OnBuild triggers is built with the
\* parsed triggers, in order, followed by its own commands, in order, and
\* with the OnBuild field of its config cleared; when a trigger does not
\* parse the stage builder is not constructed and the stage is not built.
C19_OnBuildPrepended ==
    /\ \A k \in DOMAIN doBuild.built :
          LET b == doBuild.built[k]
              st == doBuild.stages[b.stage]
          IN  ~st.OnBuild.nil =>
                 /\ ~BadTrigger(st)
                 /\ TriggersThenOwn(b.commands, st.OnBuild.triggers, st.Commands)
                 /\ b.onBuild = OnBuildNil
    /\ ( doBuild.at \in {"build", "built"} /\ ~doBuild.stages[doBuild.index].OnBuild.nil ) =>
          /\ ~BadTrigger(doBuild.stages[doBuild.index])
          /\ doBuild.sb.OnBuild = OnBuildNil
          /\ TriggersThenOwn(doBuild.sb.Commands,
                             doBuild.stages[doBuild.index].OnBuild.triggers,
                             doBuild.stages[doBuild.index].Commands)
    /\ ( doBuild.at = "returned" /\ doBuild.index \in DOMAIN doBuild.stages
         /\ BadTrigger(doBuild.stages[doBuild.index])
         /\ Len(doBuild.built) < doBuild.index ) =>
          doBuild.ret = Returned(NilImage, "stagebuilder")

\* A stage with two triggers and two commands of its own was built.
C19_Witness ==
    \E k \in DOMAIN doBuild.built :
        /\ Len(doBuild.built[k].commands) = 4
        /\ doBuild.built[k].commands[1] = <<"parsed", "RUN t1">>
        /\ doBuild.built[k].commands[3] = <<"stage", "COPY c1">>

FinalStages == { i \in DOMAIN doBuild.stages : doBuild.stages[i].FinalStage }

BuiltStages == { doBuild.built[k].stage : k \in DOMAIN doBuild.built }

\* C20: the image DoBuild returns is that of the first stage flagged
\* FinalStage with the stage's config applied; the stages up to it and no
\* other were built; it is canonical exactly when opts.Reproducible is set;
\* the image of a stage that is not final is never canonical.
C20_ReturnsFirstFinalStage ==
    /\ \A img \in doBuild.saved : ~doBuild.stages[img.stage].FinalStage /\ ~img.canonical
    /\ \A i \in BuiltStages : \A j \in FinalStages : i <= j
    /\ ( doBuild.at = "returned" /\ doBuild.ret.err = "nil" ) =>
          IF FinalStages = {}
          THEN doBuild.ret.img = NilImage
          ELSE LET f == CHOOSE i \in FinalStages : \A j \in FinalStages : i <= j IN
               /\ doBuild.ret.img.stage = f
               /\ doBuild.ret.img.config
               /\ doBuild.ret.img.canonical <=> doBuild.Reproducible
               /\ BuiltStages = 1..f

\* A reproducible build of two stages, the first saved, returned the
\* canonical image of the second.
C20_Witness ==
    /\ doBuild.at = "returned" /\ doBuild.ret.err = "nil"
    /\ doBuild.Reproducible
    /\ Len(doBuild.stages) = 2
    /\ doBuild.ret.img.stage = 2 /\ doBuild.ret.img.canonical
    /\ doBuild.saved = { SourceImage(1) }

\* The positions of the trace at which event e stands.
At(e) == { k \in DOMAIN doBuild.trace : doBuild.trace[k] = e }

\* The stages that are not final and that DoBuild is done with.
Left == { i \in DOMAIN doBuild.stages :
            /\ ~doBuild.stages[i].FinalStage
            /\ \/ i < doBuild.index
               \/ i = doBuild.index /\ doBuild.at = "returned" /\ doBuild.ret.err = "nil" }

\* C21: a stage that is not final is, when SaveStage is set, written as the
\* tarball of its index and extracted to the dependency directory of its
\* index, and then the root is wiped; when SaveStage is not set nothing is
\* persisted for it; the wipe of a stage comes before the next stage is
\* built; when the save, the extraction or the wipe fails DoBuild returns
\* the error and no later stage is built.
C21_SaveAndWipe ==
    /\ \A i \in Left :
          /\ \E w \in At(Event("wipe", i)) :
                IF doBuild.stages[i].SaveStage
                THEN \E s \in At(Event("tarball", i)), x \in At(Event("extract", i)) :
                        s < x /\ x < w
                ELSE TRUE
          /\ SourceImage(i) \in doBuild.saved <=> doBuild.stages[i].SaveStage
    /\ \A i \in DOMAIN doBuild.stages :
          ~doBuild.stages[i].SaveStage =>
              /\ At(Event("tarball", i)) = {} /\ At(Event("extract", i)) = {}
              /\ \A img \in doBuild.saved : img.stage # i
    /\ \A i \in DOMAIN doBuild.stages : \A b \in At(Event("buildStage", i)) :
          i > 1 => \E w \in At(Event("wipe", i - 1)) : w < b
    /\ doBuild.ret.err \in {"save", "extract", "delete"} =>
          /\ doBuild.at = "returned"
          /\ doBuild.ret.img = NilImage
          /\ \A i \in DOMAIN doBuild.stages :
                i > doBuild.index => At(Event("buildStage", i)) = {}
          /\ At(Event("wipe", doBuild.index)) = {}

\* Two stages, the first saved, extracted and wiped before the second ran.
C21_Witness ==
    /\ Len(doBuild.trace) = 4
    /\ doBuild.trace[2] = Event("tarball", 1)
    /\ doBuild.trace[3] = Event("extract", 1)
    /\ doBuild.trace[4] = Event("wipe", 1)
    /\ doBuild.at = "new" /\ doBuild.index = 2

---------------------------------------------------------------------------
(* Claims about failures, checked under Spec.                              *)

\* C22: when ExecuteCommand fails for an instruction the stage stops
\* there: no snapshot is taken, no layer is appended or pushed for it, it is
\* the last instruction processed, and DoBuild returns a nil image with an
\* error.
C22_ExecuteFailureStops ==
    /\ \A i \in DOMAIN log :
          log[i].execFailed =>
              /\ i = Len(log)
              /\ log[i].err = "execute"
              /\ status = "failed"
              /\ index = log[i].index
              /\ log[i].snap = "none" /\ log[i].contents = "nil"
              /\ log[i].appended = NoLayer /\ log[i].pushed = "none"
              /\ Len(image) = Len(SelectSeq(SubSeq(log, 1, i - 1),
                                            LAMBDA r : r.appended # NoLayer))
              /\ doBuild.ret.img = NilImage
              /\ doBuild.at = "returned" => doBuild.ret.err = "buildstage"
    /\ doBuild.at = "returned" => status = "failed" /\ doBuild.ret.img = NilImage

\* The second command of a stage failed after the first had added a layer,
\* and DoBuild returned the error.
C22_Witness ==
    /\ Len(log) = 2
    /\ log[2].execFailed
    /\ Len(image) = 1
    /\ doBuild.at = "returned" /\ doBuild.ret.err = "buildstage"

---------------------------------------------------------------------------
(* Claims about the determinism of a pass, checked under SpecSnap.         *)

\* The entry sequences a full pass run in this state can write.
FullPassTars ==
    { AfterWalk.tar \o [i \in DOMAIN ws |-> WhiteoutEntry(ws[i])] : ws \in RemovedNow }

\* C23: two full passes run from the same LayeredMap over the same
\* filesystem write the same sequence of tar entries, whiteouts included.
C23_DeterministicTarOrder ==
    Layers # <<>> => \A t1 \in FullPassTars, t2 \in FullPassTars : t1 = t2

\* mutate.Canonical on a layer: the timestamps of the entries are zeroed
\* (entries carry none here), their order is kept.
CanonicalLayer(entries) == entries

\* The digest of a layer, a hash of its bytes taken for collision free.
LayerDigest(entries) == <<"sha256", entries>>

\* The layers TakeSnapshot(nil) can return in this state: none when no
\* file was added.
FullPassLayers == IF AfterWalk.filesAdded THEN FullPassTars ELSE {}

\* C24: two reproducible builds that reach this state produce layers of
\* the same digest from the instruction snapshotted here.
C24_ReproducibleLayerDigests ==
    Layers # <<>> =>
        \A l1 \in FullPassLayers, l2 \in FullPassLayers :
            LayerDigest(CanonicalLayer(l1)) = LayerDigest(CanonicalLayer(l2))


---------------------------------------------------------------------------
(* Claims about the cache key, checked under Spec.                         *)

\* The key line 147 computes for the command after the current one, in the
\* state st an iteration leaves.
NextKey(st) ==
    CacheKeyOf(stage.BaseImage, FilesystemKey(st.passes), st.config,
               stage.Commands[index + 1].name)

\* The snapshot results an executed command can have without failing.
QuietSnaps ==
    LET cmd == stage.Commands[index] IN
    SnapshotResults(SnapshotDecision(stage.FinalStage, options.SingleSnapshot,
                                     index = Len(stage.Commands), cmd.files),
                    cmd.files) \ {"err"}

\* C25: the key of the command that follows a cacheable command is the same
\* whether that command was found in the cache or executed after a miss,
\* the base image and the config being the same, in every row of the
\* snapshot decision.
C25_SameNextKey ==
    (status = "loop" /\ index < Len(stage.Commands)
        /\ ~IsNilCommand(stage.Commands[index]) /\ UsesCache) =>
        \A lkHit \in LookupEnvs, lkMiss \in LookupEnvs, snap \in QuietSnaps :
            LET hit == Iteration([QuietEnv EXCEPT !.lookup = lkHit])
                miss == Iteration([QuietEnv EXCEPT !.lookup = lkMiss, !.snap = snap])
            IN  (/\ IsHit(lkHit) /\ ~IsHit(lkMiss)
                 /\ hit.rec.err = "nil" /\ miss.rec.err = "nil"
                 /\ hit.st.config = miss.st.config)
                => NextKey(hit.st) = NextKey(miss.st)

\* The inputs a key can be computed from.
KeyInputs ==
    [base : {BaseDigest, "base2"},
     fsKey : { FilesystemKey(n) : n \in 0..(MaxCmds + 1) },
     cfg : UNION { [1..n -> {"ENV"}] : n \in 0..MaxCmds },
     cmd : { k.name : k \in CmdKinds }]

\* The inputs of the key of the i-th iteration, as they were when the
\* iteration began.
InputsOf(i) ==
    [base |-> stage.BaseImage, fsKey |-> log[i].fsKey, cfg |-> log[i].cfg,
     cmd |-> log[i].cmd.name]

\* C26: the key of a command is the key of the base image digest, the
\* filesystem key and the config as they are before the command executes,
\* and the command's CreatedBy string; any other inputs, differing in one
\* of the four or more, give another key.
C26_KeyFromFourInputs ==
    \A i \in DOMAIN log :
        ~IsNilCommand(log[i].cmd) =>
            /\ InputsOf(i) \in KeyInputs
            /\ \A t \in KeyInputs :
                  (CacheKeyOf(t.base, t.fsKey, t.cfg, t.cmd) = log[i].key) <=> (t = InputsOf(i))

\* An executed command that changed the config, so that the inputs after it
\* are not the inputs its key was computed from, followed by another command
\* of the same CreatedBy string and a different key.
C26_Witness ==
    /\ Len(log) = 2
    /\ log[1].executed /\ log[1].err = "nil" /\ log[1].cfg # config
    /\ log[1].cmd.name = log[2].cmd.name
    /\ log[1].fsKey = log[2].fsKey
    /\ log[1].key # log[2].key


---------------------------------------------------------------------------
(* Claims about the layers of the LayeredMap, checked under SpecLM.        *)

\* The maps below the top of old are the same in newer.
LowerSame(old, newer) ==
    /\ Len(newer) = Len(old)
    /\ \A i \in 1..(Len(old) - 1) : newer[i] = old[i]

WritesTopOnly ==
    IF lmRet'.op = "Snapshot"
    THEN /\ layers' = Append(layers, EmptyMap)
         /\ modifiedFiles' = Append(modifiedFiles, EmptyMap)
         /\ whiteouts' = Append(whiteouts, EmptyMap)
    ELSE /\ LowerSame(layers, layers')
         /\ LowerSame(modifiedFiles, modifiedFiles')
         /\ LowerSame(whiteouts, whiteouts')

\* C27: Snapshot appends one empty map to each of layers, modifiedFiles and
\* whiteouts and changes nothing else; Add, MaybeAdd and MaybeAddWhiteout
\* leave the maps of every layer below the top as they were.
C27_WritesTopOnly == [][WritesTopOnly]_vars

\* A path of a lower layer was written again in the top layer, with another
\* hash, and marked there.
C27_Witness ==
    /\ Len(layers) = 2
    /\ lmRet.op \in {"Add", "MaybeAdd", "MaybeAddWhiteout"} /\ lmRet.added
    /\ \E s \in DOMAIN layers[1] \cap DOMAIN layers[2] : layers[1][s] # layers[2][s]
    /\ \E s \in DOMAIN whiteouts[2] : s \notin DOMAIN whiteouts[1]

\* C28: no layer holds both a whiteout mark and a hash for the same path.
C28_NoWhiteoutWithEntry ==
    \A i \in DOMAIN layers : DOMAIN layers[i] \cap DOMAIN whiteouts[i] = {}


---------------------------------------------------------------------------
(* A claim about the start of a stage, checked under SpecDoBuild.          *)

\* Some layer of l holds a hash or a whiteout mark.
Visible(l) ==
    \/ \E i \in DOMAIN l.layers : DOMAIN l.layers[i] # {}
    \/ \E i \in DOMAIN l.whiteouts : DOMAIN l.whiteouts[i] # {}

\* The steps of a buildStage begin with the unpacking, then Init, and
\* neither happens again.
StepsInOrder(s) ==
    /\ Len(s) >= 1 => s[1] = <<"unpack">>
    /\ Len(s) >= 2 => s[2] = <<"init">>
    /\ \A j \in DOMAIN s : j > 2 => s[j] \notin { <<"unpack">>, <<"init">> }

\* C29: in every stage the base image is unpacked first, then Init runs,
\* once, and only then the commands; the stage builder starts from a
\* LayeredMap and a Snapshotter in which nothing of an earlier stage is
\* recorded.
C29_FreshPerStage ==
    /\ doBuild.at = "build" =>
          /\ ~Visible(doBuild.sb.Snapshotter.l)
          /\ doBuild.sb.Snapshotter.inits = 0
          /\ doBuild.sb.steps = <<>>
    /\ StepsInOrder(doBuild.sb.steps)
    /\ Len(doBuild.sb.steps) > 2 => doBuild.sb.Snapshotter.inits = 1
    /\ \A k \in DOMAIN doBuild.built :
          /\ StepsInOrder(doBuild.built[k].steps)
          /\ Len(doBuild.built[k].steps) >= 2
          /\ doBuild.built[k].Snapshotter.inits = 1

\* The second stage is about to be built after a first stage that ran
\* commands and recorded hashes and whiteout marks.
C29_Witness ==
    /\ doBuild.at = "build" /\ doBuild.index = 2
    /\ Len(doBuild.built) = 1
    /\ Len(doBuild.built[1].steps) > 2
    /\ Visible(doBuild.built[1].Snapshotter.l)


---------------------------------------------------------------------------
(* A claim about a failing write to the tar, checked under SpecSnap.       *)

\* The tar of the last pass holds what a failed write left.
PartialTar == \E i \in DOMAIN tar : tar[i].kind = "partial"

\* C30: when a write to the tar fails while a file is added, in a pass
\* over a list of files or over the whole filesystem, the pass returns an
\* error and no contents, so that buildStage returns (lines 192-194) and
\* appends no layer made of the tar.
C30_TarFailureIsFatal ==
    (snapRet.op \in {"files", "full"} /\ PartialTar) => (snapRet.err /\ snapRet.nil)


---------------------------------------------------------------------------
(* A claim about DoPush, checked under SpecPush.                           *)

\* s is the beginning of q.
IsPrefixOf(s, q) == Len(s) <= Len(q) /\ \A k \in DOMAIN s : s[k] = q[k]

\* The destinations written to, in order.
WrittenTo == [k \in DOMAIN pushCall.res.written |-> pushCall.res.written[k].dest]

PushInOrder ==
    /\ IsPrefixOf(pushCall.res.attempted, pushCall.opts.Destinations)
    /\ IsPrefixOf(WrittenTo, pushCall.res.attempted)

PushStopsAtFailure ==
    pushCall.res.err # "nil" =>
        /\ Len(pushCall.res.written) = Len(pushCall.res.attempted) - 1
        /\ Len(pushCall.res.attempted) >= 1

PushNilMeansAll ==
    (pushCall.res.err = "nil" /\ ~pushCall.opts.NoPush) => WrittenTo = pushCall.opts.Destinations

PushNoPush ==
    pushCall.opts.NoPush =>
        pushCall.res.attempted = <<>> /\ pushCall.res.written = <<>> /\ pushCall.res.err = "nil"

\* C31: DoPush attempts the destinations in order and stops at the first
\* failure with an error; it returns nil only when every destination was
\* written; with NoPush it attempts and writes nothing.
C31_DoPushAllOrError ==
    pushCall.at = "returned" =>
        PushInOrder /\ PushStopsAtFailure /\ PushNilMeansAll /\ PushNoPush


---------------------------------------------------------------------------
(* A claim about a file that comes back, checked under SpecSnap.           *)

\* p was removed, its whiteout written by an earlier pass, and is on the
\* disk again with the hash the LayeredMap holds for it from before.
RecreatedAsBefore(p) ==
    /\ p \in DOMAIN WhiteoutFiles /\ WhiteoutFiles[p]
    /\ disk[p] # NoFile
    /\ ~PathInWhitelist(p, whitelist)
    /\ SGet(Layers, p).ok /\ SGet(Layers, p).v = disk[p]

\* C32: a full-filesystem pass writes a file entry for every path whose
\* whiteout an earlier pass wrote and that exists again as it was before
\* it was removed.
C32_RecreatedFileIsAdded ==
    [][ (FullPassStep /\ ~snapRet'.err) =>
          \A p \in SnapPaths : RecreatedAsBefore(p) => p \in EntriesOf(tar', "file") ]_vars


---------------------------------------------------------------------------
(* Claims about what the cache key tells apart, checked under Spec.        *)

\* The commands before the k-th that change the filesystem: those that are
\* executed and whose FilesToSnapshot is not the empty list.
FsChanges(cmds, k) ==
    LET changes(c) == ~IsNilCommand(c) /\ c.files # "empty"
        before == SelectSeq(SubSeq(cmds, 1, k - 1), changes)
    IN  [j \in DOMAIN before |-> before[j].name]

\* The number of LayeredMap.Snapshot() calls before the k-th command of a
\* stage whose commands before it were all executed: Init and the passes
\* the snapshot decision takes.
PassesBefore(cmds, final, single, k) ==
    1 + Cardinality({ j \in 1..(k - 1) :
                        /\ ~IsNilCommand(cmds[j])
                        /\ SnapshotDecision(final, single, j = Len(cmds), cmds[j].files)
                              # "none" })

\* The config before the k-th command.
ConfigBefore(cmds, k) ==
    LET sets(c) == ~IsNilCommand(c) /\ c.files = "empty"
        before == SelectSeq(SubSeq(cmds, 1, k - 1), sets)
    IN  [j \in DOMAIN before |-> before[j].name]

\* The key line 147 computes for the k-th command of such a stage.
KeyAt(cmds, final, single, k) ==
    CacheKeyOf(stage.BaseImage, FilesystemKey(PassesBefore(cmds, final, single, k)),
               ConfigBefore(cmds, k), cmds[k].name)

\* The commands before the k-th were executed, none failed.
AllExecutedBefore(k) ==
    \A j \in 1..(k - 1) :
        IsNilCommand(log[j].cmd) \/ (log[j].executed /\ log[j].err = "nil")

\* The stages with the same k-th command whose commands before it change
\* the filesystem in another way.
OtherPrefixes(k) ==
    { alt \in CommandLists :
        /\ Len(alt) = Len(stage.Commands)
        /\ alt[k] = stage.Commands[k]
        /\ FsChanges(alt, k) # FsChanges(stage.Commands, k) }

\* C33: the key of a cacheable command differs from the key the same
\* command gets, in the same kind of stage and mode, after commands that
\* changed the filesystem in another way.
C33_KeyTellsPrefixesApart ==
    \A k \in DOMAIN log :
        (/\ ~IsNilCommand(log[k].cmd) /\ log[k].cmd.cache
         /\ AllExecutedBefore(k)
         /\ log[k].key = KeyAt(stage.Commands, stage.FinalStage, options.SingleSnapshot, k))
        => \A alt \in OtherPrefixes(k) :
              KeyAt(alt, stage.FinalStage, options.SingleSnapshot, k) # log[k].key


\* What the registry holds after a build executed the current command,
\* with source content s, and pushed its layer.
AfterFirstBuild(s) ==
    LET first == [stage.Commands[index] EXCEPT !.src = s] IN
    PushLayerToCache(options, CacheKey(CreatedBy(first)), SnapshotLayer(index),
                     CreatedBy(first), registry, FALSE)

\* C34: a build whose COPY reads a source file of another content than the
\* build that stored a layer, all else being the same, finds no layer in
\* the cache for that COPY.
C34_CopySourceInKey ==
    (/\ status = "loop"
     /\ stage.Commands[index].src # NoSource
     /\ UsesCache)
    => \A s \in SourceContents \ {stage.Commands[index].src} :
          AfterFirstBuild(s).err = "nil" =>
              CheckCacheForLayer(options, CacheKey(CreatedBy(stage.Commands[index])),
                                 AfterFirstBuild(s).reg, NoFault).err # "nil"


---------------------------------------------------------------------------
(* A claim about the end of a stage that is not final, checked under Spec. *)

\* C35: when buildStage returns nil for a stage that is not final, the
\* iteration of its last command took a full-filesystem pass, whether the
\* command was executed, found in the cache, or one for which GetCommand
\* returns nil.
C35_NonFinalStageEndsWithFullPass ==
    (status = "done" /\ ~stage.FinalStage /\ stage.Commands # <<>>) =>
        /\ Len(log) = Len(stage.Commands)
        /\ log[Len(log)].snap = "full"


---------------------------------------------------------------------------
(* A claim about what DoBuild returns, checked under SpecDoBuild.          *)

\* C36: DoBuild returns an image or an error, never nil and nil, whatever
\* the stages are: none at all, or none flagged FinalStage.
C36_ImageOrError ==
    doBuild.at = "returned" => (doBuild.ret.img # NilImage \/ doBuild.ret.err # "nil")


---------------------------------------------------------------------------
(* A claim about the bytes a pass returns, checked under SpecSnap.         *)

\* C37: the contents a pass returns, over a list of files or over the whole
\* filesystem, end with what closing the tar writer writes.
C37_ReturnedTarIsClosed ==
    (snapRet.op \in {"files", "full"} /\ ~snapRet.nil) =>
        /\ snapRet.contents # <<>>
        /\ snapRet.contents[Len(snapRet.contents)] = EndOfArchive

====
